---- MODULE Spec2Model ----
(***************************************************************************)
(* Model of the annotating parser of bitsplain                             *)
(* (crates/bitsplain/src/parse.rs, crates/bitsplain/src/tree.rs) and of    *)
(* the decode closure that the decoder! macro builds (bitsplain/src/lib.rs)*)
(*                                                                         *)
(* One behaviour is one invocation of a decoder's `decode` closure on a    *)
(* Binary: the guard is evaluated, a fresh span is created over the bytes, *)
(* a parser made of the combinators parse, with, alt, flags, nom's peek    *)
(* and nom's backtracking combinators (many0, opt, branch alt) runs step   *)
(* by step, and the decoder finishes with None or Some(annotations()).     *)
(*                                                                         *)
(* Strings are sequences of tokens: a static label is one token, and the   *)
(* decimal form of a number is the sequence of its digits.                 *)
(***************************************************************************)
EXTENDS Integers, Sequences, FiniteSets

\* Bounds of the model.
MaxLen == 1        \* longest blob
MaxCalls == 5      \* most combinator and insert/bookmark calls of one parser run
MaxText == 4       \* longest input of decode_input, the samples aside
MaxFlat == 3       \* longest blob of a run of parse calls on their own

\* Byte values the blobs are made of (bit 0 clear, bit 1 set).
ByteVals == {2}

\* Option<T>: None is the empty tuple, Some(x) the one-element tuple.
None == <<>>
Some(x) == <<x>>

\* String::from of a static label.
Str(s) == <<s>>

\* HashMap::new()
HashMapNew == [k \in {} |-> <<>>]

\* HashMap::insert
HashMapInsert(m, key, value) ==
    [k \in (DOMAIN m) \cup {key} |-> IF k = key THEN value ELSE m[k]]

\* HashMap::remove (the map that is left)
HashMapRemove(m, key) == [k \in (DOMAIN m) \ {key} |-> m[k]]

\* usize::to_string: the decimal digits of n.
DigitChars == <<"0", "1", "2", "3", "4", "5", "6", "7", "8", "9">>

RECURSIVE to_string(_)
to_string(n) ==
    IF n < 10 THEN <<DigitChars[n + 1]>>
    ELSE to_string(n \div 10) \o <<DigitChars[(n % 10) + 1]>>

\* str::parse::<usize>: Some(n) for a non-empty run of decimal digits
\* (an optional leading "+" is accepted), None otherwise.
DigitValue(c) == CHOOSE d \in 0..9 : DigitChars[d + 1] = c

IsDigit(c) == \E d \in 1..10 : DigitChars[d] = c

RECURSIVE DigitsValue(_, _)
DigitsValue(s, acc) ==
    IF s = <<>> THEN acc
    ELSE DigitsValue(Tail(s), acc * 10 + DigitValue(Head(s)))

parse_usize(s) ==
    LET digits == IF s # <<>> /\ Head(s) = "+" THEN Tail(s) ELSE s
    IN IF digits # <<>> /\ \A i \in 1..Len(digits) : IsDigit(digits[i])
       THEN Some(DigitsValue(digits, 0))
       ELSE None

VARIABLES
    blob,        \* the bytes of the Binary handed to the decoder
    guard,       \* whether the decoder's pattern matches the Binary
    phase,       \* "start", "parsing", "done", "panic"
    span,        \* the Annotated span the parser currently holds
    appendices,  \* the Rc<RefCell<Vec<Appendix>>> all spans of the run share
    stack,       \* the open combinator invocations, innermost last
    bm,          \* the Bookmark the parser holds, None before it takes one
    result,      \* what the decoder's parser returned: "Ok", "Err", "none" before
    out,         \* what decode returned: None or Some(tree)
    calls        \* the calls the parser has made so far (what MaxCalls bounds)

\* The variables of the run of one decoder.
pvars == <<blob, guard, phase, span, appendices, stack, bm, result, out, calls>>

VARIABLES
    user_input,   \* the Input handed to decode_input
    checksum,     \* whether the input's Base58 text ends in its own checksum
    registry,     \* the decoders in the order all_decoders() gives them
    binaries,     \* what input_to_binaries returned
    next_binary,  \* the position decode_binaries has reached in the binaries
    candidates,   \* the candidates collected so far
    step          \* "input", "binaries", "returned": where decode_input is

\* The variables of decode_input.
ivars == <<user_input, checksum, registry, binaries, next_binary, candidates, step>>

vars == <<pvars, ivars>>

\* Annotated::new
AnnotatedNew(fragment) ==
    [next_index |-> 0,
     next_offset |-> 0,
     next_fragment |-> fragment,
     tree |-> <<>>,
     data |-> HashMapNew,
     tags |-> <<>>,
     last_range |-> None]

\* InputLength::input_len
input_len(s) == Len(s.next_fragment)

\* A slice that advances the offset by twice the bytes it drops.
SliceFromTwice(s, count) ==
    [next_index |-> s.next_index,
     next_offset |-> s.next_offset + 2 * count,
     next_fragment |-> SubSeq(s.next_fragment, count + 1, Len(s.next_fragment)),
     tree |-> s.tree,
     data |-> HashMapNew,
     tags |-> <<>>,
     last_range |-> s.last_range]

\* Slice<RangeFrom<usize>>::slice(count..): what a primitive reader of nom
\* (be_u8, take, ...) returns as the remaining input after reading count bytes.
SliceFrom(s, count) ==
    [next_index |-> s.next_index,
     next_offset |-> s.next_offset + count,
     next_fragment |-> SubSeq(s.next_fragment, count + 1, Len(s.next_fragment)),
     tree |-> s.tree,
     data |-> HashMapNew,
     tags |-> <<>>,
     last_range |-> s.last_range]

\* A with that leaves a key that is set as it is.
SpanWithKeepFirst(s, key, value) ==
    IF key \in DOMAIN s.data THEN s
    ELSE [s EXCEPT !.data = HashMapInsert(s.data, key, value)]

\* Annotated::with
SpanWith(s, key, value) == [s EXCEPT !.data = HashMapInsert(s.data, key, value)]

\* Annotated::add_tag
add_tag(s, tag) == [s EXCEPT !.tags = Append(s.tags, tag)]

\* Annotated::bookmark
bookmark(s) == s.last_range

\* Information of an appendix pushed by insert / insert_at.
AppendixInformation(label) ==
    [label |-> label, data |-> HashMapNew, tags |-> <<>>, value |-> "Nil"]

\* An insert_at that pushes an appendix also for a bookmark of no range.
insert_at_unconditional(app, bookmark_, label) ==
    Append(app, [from |-> IF bookmark_ # None THEN bookmark_[1][1] ELSE 0,
                 to |-> IF bookmark_ # None THEN bookmark_[1][2] ELSE 0,
                 place |-> "After",
                 information |-> AppendixInformation(label)])

\* Annotated::insert_at: the appendix list after the call.
insert_at(app, bookmark_, label) ==
    IF bookmark_ # None
    THEN Append(app, [from |-> bookmark_[1][1],
                      to |-> bookmark_[1][2],
                      place |-> "After",
                      information |-> AppendixInformation(label)])
    ELSE app

\* An insert into a list of the span's own, which is lost with the span.
insert_into_copy(s, app, label) == app

\* Annotated::insert: the appendix list after the call.
insert(s, app, label) ==
    IF s.last_range # None
    THEN Append(app, [from |-> s.last_range[1][1],
                      to |-> s.last_range[1][2],
                      place |-> "After",
                      information |-> AppendixInformation(label)])
    ELSE app

\* parse, lines 449-452: the span handed to the inner parser.
ParseEntry(input) == [input EXCEPT !.tree = <<>>]

\* A parse that measures from at the start of the whole input rather than at
\* the offset of its own input.
ParseSavedFromStart(input) ==
    [next_offset |-> 0,
     next_index |-> input.next_index,
     tree |-> input.tree]

\* parse, lines 449-451: what parse keeps of its input while the inner parser
\* runs (from, index and next_tree).
ParseSaved(input) ==
    [next_offset |-> input.next_offset,
     next_index |-> input.next_index,
     tree |-> input.tree]

\* A group whose index_to is the next free index rather than the last used.
GroupIndexToNext(s) == s.next_index

\* parse, line 481: index_to of a group (inclusive).
GroupIndexTo(s) == s.next_index - 1

\* parse, line 467: ann.tags.iter().filter_map(|t| t.resolve(&out)). A tag
\* maker is told by what it resolves to for the output: Some(tag) or None.
ResolveTags(makers) ==
    LET Yields(m) == m # None
        kept == SelectSeq(makers, Yields)
    IN [i \in 1..Len(kept) |-> kept[i][1]]

\* A parse that gives every node the tags of the annotation followed by the
\* pending tags of the span.
NodeTagsBoth(isLeaf, s, ann) == ResolveTags(ann.tags) \o s.tags

\* parse, lines 467 and 486: the tags of the node; a leaf takes those of the
\* annotation, a group the pending tags of the inner parser's span.
NodeTags(isLeaf, s, ann) == IF isLeaf THEN ResolveTags(ann.tags) ELSE s.tags

\* A parse that emits a real leaf whatever the inner parser produced.
ParseNodeLeafOnly(input, s, ann) ==
    [kind |-> "real",
     path |-> <<>>,
     location |-> [from |-> input.next_offset,
                   to |-> s.next_offset,
                   index |-> input.next_index],
     information |-> [label |-> ann.label,
                      data |-> s.data,
                      tags |-> NodeTags(TRUE, s, ann),
                      value |-> ann.value]]

\* parse, lines 460-494: the node built from the inner parser's span.
ParseNode(input, s, ann) ==
    LET from == input.next_offset
        index == input.next_index
        to == s.next_offset
    IN IF s.tree = <<>>
       THEN [kind |-> "real",
             path |-> <<>>,
             location |-> [from |-> from, to |-> to, index |-> index],
             information |-> [label |-> ann.label,
                              data |-> s.data,
                              tags |-> NodeTags(TRUE, s, ann),
                              value |-> ann.value]]
       ELSE [kind |-> "group",
             path |-> <<>>,
             location |-> [byte_from |-> from,
                           byte_to |-> to,
                           index_from |-> index,
                           index_to |-> GroupIndexTo(s)],
             information |-> [label |-> ann.label,
                              data |-> s.data,
                              tags |-> NodeTags(FALSE, s, ann),
                              value |-> ann.value],
             children |-> s.tree]

\* parse, line 481: span.next_index - 1 on usize underflows when no leaf was
\* ever produced on the way to a group.
ParsePanics(input, s) == s.tree # <<>> /\ s.next_index = 0

\* A parse in which groups advance the index as leaves do.
ParseNextIndexAlways(s) == s.next_index + 1

\* parse, lines 496-502: only leaves advance the index.
ParseNextIndex(s) == IF s.tree = <<>> THEN s.next_index + 1 ELSE s.next_index

\* A parse that hands on the last_range of the inner parser's span.
ParseOkInnerRange(input, s, ann) ==
    [next_index |-> ParseNextIndex(s),
     next_offset |-> s.next_offset,
     next_fragment |-> s.next_fragment,
     data |-> HashMapNew,
     tags |-> <<>>,
     tree |-> Append(input.tree, ParseNode(input, s, ann)),
     last_range |-> s.last_range]

\* A parse that hands on the data and the tags of the inner parser's span.
ParseOkKeepData(input, s, ann) ==
    [next_index |-> ParseNextIndex(s),
     next_offset |-> s.next_offset,
     next_fragment |-> s.next_fragment,
     data |-> s.data,
     tags |-> s.tags,
     tree |-> Append(input.tree, ParseNode(input, s, ann)),
     last_range |-> Some(<<input.next_offset, s.next_offset>>)]

\* parse, lines 453-516 when the inner parser returned Ok((s, out)): the span
\* parse returns.
ParseOk(input, s, ann) ==
    [next_index |-> ParseNextIndex(s),
     next_offset |-> s.next_offset,
     next_fragment |-> s.next_fragment,
     data |-> HashMapNew,
     tags |-> <<>>,
     tree |-> Append(input.tree, ParseNode(input, s, ann)),
     last_range |-> Some(<<input.next_offset, s.next_offset>>)]

\* A test of the bit that holds of every number that is not below 1 << idx.
BitSetOrAbove(numeric, idx) == numeric >= 2 ^ idx

\* numeric & 1 << idx > 0
BitSet(numeric, idx) == (numeric \div (2 ^ idx)) % 2 = 1

\* Annotation of a flag bit: ann(label, auto()) resolved against the bit.
FlagAnn(idx, bit) ==
    [label |-> Str("flag"), tags |-> <<>>, value |-> IF bit THEN "true" ELSE "false"]

\* flags, lines 426-433: parse(success(bit), ann) folded over the declared bits.
RECURSIVE FlagsFold(_, _, _)
FlagsFold(s, numeric, anns) ==
    IF anns = <<>> THEN s
    ELSE FlagsFold(ParseOk(ParseSaved(s), ParseEntry(s), FlagAnn(Head(anns), BitSet(numeric, Head(anns)))),
                   numeric, Tail(anns))

\* flags, lines 422-436, with u8 as the numeric parser: the span returned when
\* one byte can be read.
flags(input, anns) ==
    FlagsFold(SliceFrom(input, 1), input.next_fragment[1], anns)

----------------------------------------------------------------------------
\* Finalization (Annotated::annotations) and the Tree operations.

\* The virtual leaves of the appendices, in the order of the list.
RECURSIVE VirtualLeaves(_)
VirtualLeaves(app) ==
    IF app = <<>> THEN <<>>
    ELSE <<[kind |-> "virtual", path |-> <<>>, information |-> Head(app).information]>>
         \o VirtualLeaves(Tail(app))

\* A filter that compares the end of the range only.
AppendixMatchesTo(a, t) == a.place = "After" /\ a.to = t.location.to

\* A filter that compares the start of the range only.
AppendixMatchesFrom(a, t) == a.place = "After" /\ a.from = t.location.from

\* inject_appendices, line 175: the filter that picks the appendices of the
\* real leaf t.
AppendixMatches(a, t) ==
    /\ a.place = "After"
    /\ a.from = t.location.from
    /\ a.to = t.location.to

\* Annotated::inject_appendices
RECURSIVE inject_appendices(_, _)
inject_appendices(tree, app) ==
    IF tree = <<>> THEN <<>>
    ELSE LET t == Head(tree)
             rest == inject_appendices(Tail(tree), app)
             Matches(a) == AppendixMatches(a, t)
         IN CASE t.kind = "group" ->
                   <<[t EXCEPT !.children = inject_appendices(t.children, app)]>> \o rest
              [] t.kind = "real" ->
                   <<t>> \o VirtualLeaves(SelectSeq(app, Matches)) \o rest
              [] OTHER -> <<t>> \o rest

\* Annotated::inject_paths; i is the position enumerate() has reached.
RECURSIVE InjectPathsFrom(_, _, _)
InjectPathsFrom(tree, prefix, i) ==
    IF tree = <<>> THEN <<>>
    ELSE LET t == Head(tree)
             path == t.path \o prefix \o <<to_string(i)>>
             node == IF t.kind = "group"
                     THEN [t EXCEPT !.path = path,
                                    !.children = InjectPathsFrom(t.children, path, 0)]
                     ELSE [t EXCEPT !.path = path]
         IN <<node>> \o InjectPathsFrom(Tail(tree), prefix, i + 1)

\* Paths whose components count the top-level nodes from one.
inject_paths_from_one(tree, prefix) == InjectPathsFrom(tree, prefix, 1)

inject_paths(tree, prefix) == InjectPathsFrom(tree, prefix, 0)

\* Information::has_data
has_data(information, key, value) ==
    key \in DOMAIN information.data /\ information.data[key] = value

\* A baking in which the number of an enumerated group wins over the label
\* given ex post.
BakeInformationEnumerateFirst(information, isGroup, enumeration) ==
    IF isGroup /\ has_data(information, "list", Str("enumerate"))
    THEN [information EXCEPT !.label = to_string(enumeration),
                             !.data = HashMapRemove(information.data, "annotation")]
    ELSE IF "annotation" \in DOMAIN information.data
         THEN [information EXCEPT !.label = information.data["annotation"],
                                  !.data = HashMapRemove(information.data, "annotation")]
         ELSE information

\* bake_annotations, lines 213-215 / 227-231: the information of a node after
\* baking; enumerate is looked at on groups only.
BakeInformation(information, isGroup, enumeration) ==
    IF "annotation" \in DOMAIN information.data
    THEN [information EXCEPT !.label = information.data["annotation"],
                             !.data = HashMapRemove(information.data, "annotation")]
    ELSE IF isGroup /\ has_data(information, "list", Str("enumerate"))
         THEN [information EXCEPT !.label = to_string(enumeration)]
         ELSE information

\* Annotated::bake_annotations; BakeChildren is the enumerate() loop of
\* lines 232-235.
RECURSIVE bake_annotations(_, _)
RECURSIVE BakeChildren(_, _)
bake_annotations(node, enumeration) ==
    IF node.kind = "group"
    THEN [node EXCEPT !.information = BakeInformation(node.information, TRUE, enumeration),
                      !.children = BakeChildren(node.children, 0)]
    ELSE [node EXCEPT !.information = BakeInformation(node.information, FALSE, enumeration)]

BakeChildren(children, en) ==
    IF children = <<>> THEN <<>>
    ELSE <<bake_annotations(Head(children), en)>> \o BakeChildren(Tail(children), en + 1)

\* annotations, line 244: every root is baked with enumeration 0.
RECURSIVE BakeRoots(_)
BakeRoots(tree) ==
    IF tree = <<>> THEN <<>>
    ELSE <<bake_annotations(Head(tree), 0)>> \o BakeRoots(Tail(tree))

\* A finalization that leaves the appendices out.
annotations_without_appendices(s, app) == BakeRoots(inject_paths(s.tree, <<>>))

\* Annotated::annotations
annotations(s, app) == BakeRoots(inject_paths(inject_appendices(s.tree, app), <<>>))

\* Tree::select_path (Tree::select is select_path on the roots).
RECURSIVE select_path(_, _)
select_path(tree, path) ==
    IF path = <<>> THEN None
    ELSE LET i == parse_usize(Head(path))
             tail == Tail(path)
         IN IF i = None THEN None
            ELSE IF i[1] >= Len(tree) THEN None
            ELSE LET subtree == tree[i[1] + 1]
                 IN IF tail = <<>> THEN Some(subtree)
                    ELSE IF subtree.kind = "group"
                         THEN select_path(subtree.children, tail)
                         ELSE None

select(tree, path) == select_path(tree, path)

\* usize::MAX and usize::MIN, with the largest integer of the checker
\* standing for usize::MAX.
UsizeMax == 2147483647
UsizeMin == 0

Min2(a, b) == IF a <= b THEN a ELSE b
Max2(a, b) == IF a >= b THEN a ELSE b

\* Node::index_range; IndexRangeFold is the fold over the children.
RECURSIVE index_range(_)
RECURSIVE IndexRangeFold(_, _)
index_range(node) ==
    CASE node.kind = "group" -> IndexRangeFold(node.children, <<UsizeMax, UsizeMin>>)
      [] node.kind = "real" -> <<node.location.index, node.location.index>>
      [] OTHER -> <<UsizeMax, UsizeMin>>

IndexRangeFold(children, acc) ==
    IF children = <<>> THEN acc
    ELSE LET r == index_range(Head(children))
         IN IndexRangeFold(Tail(children), <<Min2(acc[1], r[1]), Max2(acc[2], r[2])>>)

\* Tree::tree_leaves
RECURSIVE tree_leaves(_)
tree_leaves(trees) ==
    IF trees = <<>> THEN <<>>
    ELSE (IF Head(trees).kind = "group"
          THEN tree_leaves(Head(trees).children)
          ELSE <<Head(trees)>>) \o tree_leaves(Tail(trees))

\* Tree::real_leaves
real_leaves(trees) ==
    LET IsReal(l) == l.kind = "real" IN SelectSeq(tree_leaves(trees), IsReal)

\* A decode closure that does not look at the bytes the parser left.
decode_ignoring_rest(matches, parsed, s, app) ==
    IF matches /\ parsed = "Ok" THEN Some(annotations(s, app)) ELSE None

\* A decode closure that publishes what the parser had built when it failed.
decode_publishing_partial(matches, parsed, s, app) ==
    IF matches
    THEN IF parsed = "Ok" /\ input_len(s) > 0
         THEN None
         ELSE Some(annotations(s, app))
    ELSE None

\* The decode closure of decoder!: matches is the outcome of matches!(b, ...),
\* parsed the parser's result ("Ok" with the span s it returned, or "Err").
decode(matches, parsed, s, app) ==
    IF matches
    THEN IF parsed = "Ok"
         THEN IF input_len(s) > 0 THEN None ELSE Some(annotations(s, app))
         ELSE None
    ELSE None

----------------------------------------------------------------------------
\* The run of one decoder.

\* All blobs of at most MaxLen bytes.
Blobs == UNION {[1..n -> ByteVals] : n \in 0..MaxLen}

\* The bit declarations flags is called with.
FlagDecls == {<<0>>, <<0, 1>>}

\* The annotation parse is called with: a static label, a static value, a
\* tag maker that yields a tag for the output and one that yields none.
NodeAnn == [label |-> Str("ann"), tags |-> <<Some("anntag"), None>>, value |-> "Nil"]

\* The label of the next annotation handed to insert / insert_at: the caller
\* gives every inserted annotation a label of its own.
InsertLabel == Str("v") \o to_string(Len(appendices))

\* An open combinator invocation: its kind and the span it was called with.
Frame(kind, input) == [kind |-> kind, input |-> input]

Top == stack[Len(stack)]
Pop == SubSeq(stack, 1, Len(stack) - 1)

\* decode_input is not running: the decoder was called on the blob directly.
InputIdle ==
    /\ user_input = [kind |-> "Binary", data |-> <<>>]
    /\ checksum = FALSE
    /\ registry = <<>>
    /\ binaries = <<>>
    /\ next_binary = 1
    /\ candidates = <<>>
    /\ step = "idle"

Init ==
    /\ blob \in Blobs
    /\ guard \in BOOLEAN
    /\ phase = "start"
    /\ span = AnnotatedNew(blob)
    /\ appendices = <<>>
    /\ stack = <<>>
    /\ bm = None
    /\ result = "none"
    /\ out = None
    /\ calls = 0
    /\ InputIdle

\* decoder!, lines 61-63: the guard is evaluated; the parser is only run on
\* Annotated::new(&b) when it matches.
DecodeStart ==
    /\ phase = "start"
    /\ IF guard
       THEN /\ phase' = "parsing"
            /\ span' = AnnotatedNew(blob)
            /\ out' = out
       ELSE /\ phase' = "done"
            /\ span' = span
            /\ out' = decode(guard, result, span, appendices)
    /\ UNCHANGED <<blob, guard, appendices, stack, bm, result>>
    /\ UNCHANGED calls
    /\ UNCHANGED ivars

\* A primitive reader of nom consumes n bytes.
Read(n) ==
    /\ phase = "parsing"
    /\ n <= input_len(span)
    /\ span' = SliceFrom(span, n)
    /\ UNCHANGED <<blob, guard, phase, appendices, stack, bm, result, out>>
    /\ UNCHANGED calls
    /\ UNCHANGED ivars

\* parse is called: lines 449-453, up to the call of the inner parser.
ParseEnter ==
    /\ phase = "parsing"
    /\ calls < MaxCalls
    /\ stack' = Append(stack, Frame("parse", ParseSaved(span)))
    /\ span' = ParseEntry(span)
    /\ UNCHANGED <<blob, guard, phase, appendices, bm, result, out>>
    /\ calls' = calls + 1
    /\ UNCHANGED ivars

\* The inner parser of parse returned Ok: lines 454-516.
ParseExit ==
    /\ phase = "parsing"
    /\ stack # <<>>
    /\ Top.kind = "parse"
    /\ IF ParsePanics(Top.input, span)
       THEN /\ phase' = "panic"
            /\ UNCHANGED <<span, stack>>
       ELSE /\ span' = ParseOk(Top.input, span, NodeAnn)
            /\ stack' = Pop
            /\ phase' = phase
    /\ UNCHANGED <<blob, guard, appendices, bm, result, out>>
    /\ UNCHANGED calls
    /\ UNCHANGED ivars

\* with("list", "enumerate", inner): inner returned Ok, line 398.
With ==
    /\ phase = "parsing"
    /\ calls < MaxCalls
    /\ span' = SpanWith(span, "list", Str("enumerate"))
    /\ UNCHANGED <<blob, guard, phase, appendices, stack, bm, result, out>>
    /\ calls' = calls + 1
    /\ UNCHANGED ivars

\* flags(u8, anns): lines 422-436.
Flags(anns) ==
    /\ phase = "parsing"
    /\ input_len(span) >= 1
    /\ calls < MaxCalls
    /\ span' = flags(span, anns)
    /\ UNCHANGED <<blob, guard, phase, appendices, stack, bm, result, out>>
    /\ calls' = calls + 1
    /\ UNCHANGED ivars

\* An alt whose primary parser goes on where the alternate stopped.
AltPrimaryInputAfterAlternate(input, alternate) == alternate

\* alt, lines 531-532: the span the primary parser is called on once the
\* alternate returned Ok((_, alt_out)): the input, the span of the alternate
\* is dropped.
AltPrimaryInput(input, alternate) == input

\* alt is called: line 530, the alternate parser runs on a clone. nom's peek
\* does the same with its parser.
AltEnter ==
    /\ phase = "parsing"
    /\ calls < MaxCalls
    /\ stack' = Append(stack, Frame("alt", span))
    /\ UNCHANGED <<blob, guard, phase, span, appendices, bm, result, out>>
    /\ calls' = calls + 1
    /\ UNCHANGED ivars

\* alt, lines 531-532: the alternate parser returned Ok, its span is dropped
\* and the primary parser continues on the input. nom's peek returns its input
\* in the same way.
AltExit ==
    /\ phase = "parsing"
    /\ stack # <<>>
    /\ Top.kind = "alt"
    /\ span' = AltPrimaryInput(Top.input, span)
    /\ stack' = Pop
    /\ UNCHANGED <<blob, guard, phase, appendices, bm, result, out>>
    /\ UNCHANGED calls
    /\ UNCHANGED ivars

\* A backtracking combinator of nom (an iteration of many0, opt, an
\* alternative of branch::alt) calls its parser on a clone of the input.
TryEnter ==
    /\ phase = "parsing"
    /\ calls < MaxCalls
    /\ stack' = Append(stack, Frame("try", span))
    /\ UNCHANGED <<blob, guard, phase, span, appendices, bm, result, out>>
    /\ calls' = calls + 1
    /\ UNCHANGED ivars

\* The parser of a backtracking combinator returned Ok: its span is kept.
TryExit ==
    /\ phase = "parsing"
    /\ stack # <<>>
    /\ Top.kind = "try"
    /\ stack' = Pop
    /\ UNCHANGED <<blob, guard, phase, span, appendices, bm, result, out>>
    /\ UNCHANGED calls
    /\ UNCHANGED ivars

\* The positions of the backtracking invocations that are open.
TryFrames == {i \in 1..Len(stack) : stack[i].kind = "try"}

\* A parser fails (too few bytes, a verify or value mismatch). The error
\* travels through `?` up to the innermost backtracking combinator, which
\* goes on with the span it was called with; if there is none the decoder's
\* parser has failed and decode returns None (lib.rs line 63, .ok()).
Fail ==
    /\ phase = "parsing"
    /\ IF TryFrames # {}
       THEN LET j == CHOOSE i \in TryFrames : \A k \in TryFrames : k <= i
            IN /\ span' = stack[j].input
               /\ stack' = SubSeq(stack, 1, j - 1)
               /\ UNCHANGED <<phase, result, out>>
       ELSE /\ phase' = "done"
            /\ result' = "Err"
            /\ out' = decode(guard, "Err", span, appendices)
            /\ UNCHANGED <<span, stack>>
    /\ UNCHANGED <<blob, guard, appendices, bm>>
    /\ UNCHANGED calls
    /\ UNCHANGED ivars

\* s.bookmark()
Bookmark ==
    /\ phase = "parsing"
    /\ calls < MaxCalls
    /\ bm' = Some(bookmark(span))
    /\ UNCHANGED <<blob, guard, phase, span, appendices, stack, result, out>>
    /\ calls' = calls + 1
    /\ UNCHANGED ivars

\* s.insert(ann)
Insert ==
    /\ phase = "parsing"
    /\ calls < MaxCalls
    /\ appendices' = insert(span, appendices, InsertLabel)
    /\ UNCHANGED <<blob, guard, phase, span, stack, bm, result, out>>
    /\ calls' = calls + 1
    /\ UNCHANGED ivars

\* s.insert_at(&bm, ann)
InsertAt ==
    /\ phase = "parsing"
    /\ bm # None
    /\ calls < MaxCalls
    /\ appendices' = insert_at(appendices, bm[1], InsertLabel)
    /\ UNCHANGED <<blob, guard, phase, span, stack, bm, result, out>>
    /\ calls' = calls + 1
    /\ UNCHANGED ivars

\* The decoder's parser returned Ok((x, _)): decoder!, lines 63-70.
Finish ==
    /\ phase = "parsing"
    /\ stack = <<>>
    /\ phase' = "done"
    /\ result' = "Ok"
    /\ out' = decode(guard, "Ok", span, appendices)
    /\ UNCHANGED <<blob, guard, span, appendices, stack, bm>>
    /\ UNCHANGED calls
    /\ UNCHANGED ivars

\* s.with("annotation", label): the label given ex post, as tlv_record does.
WithAnnotation ==
    /\ phase = "parsing"
    /\ calls < MaxCalls
    /\ span' = SpanWith(span, "annotation", Str("named"))
    /\ UNCHANGED <<blob, guard, phase, appendices, stack, bm, result, out>>
    /\ calls' = calls + 1
    /\ UNCHANGED ivars

\* s.add_tag(tag), as tx_out does.
AddTag ==
    /\ phase = "parsing"
    /\ calls < MaxCalls
    /\ span' = add_tag(span, "spantag")
    /\ UNCHANGED <<blob, guard, phase, appendices, stack, bm, result, out>>
    /\ calls' = calls + 1
    /\ UNCHANGED ivars

\* The values of the key "datatype" that uint32 and timestamp set.
Datatypes == {"uint32", "timestamp"}

\* with("datatype", v, inner): inner returned Ok, line 398; uint32 sets
\* "uint32" this way, and timestamp sets "timestamp" with s.with on the span
\* its numeric parser returned.
WithDatatype(v) ==
    /\ phase = "parsing"
    /\ calls < MaxCalls
    /\ span' = SpanWith(span, "datatype", Str(v))
    /\ UNCHANGED <<blob, guard, phase, appendices, stack, bm, result, out>>
    /\ calls' = calls + 1
    /\ UNCHANGED ivars

Next ==
    \/ DecodeStart
    \/ \E n \in 1..MaxLen : Read(n)
    \/ ParseEnter
    \/ ParseExit
    \/ With
    \/ \E anns \in FlagDecls : Flags(anns)
    \/ AltEnter
    \/ AltExit
    \/ TryEnter
    \/ TryExit
    \/ Fail
    \/ Bookmark
    \/ Insert
    \/ InsertAt
    \/ Finish

Spec == Init /\ [][Next]_vars

\* The run of a decoder whose parser names nodes ex post and tags its spans:
\* parse, with, add_tag, insert, and no backtracking.
NextMeta ==
    \/ DecodeStart
    \/ \E n \in 1..MaxLen : Read(n)
    \/ ParseEnter
    \/ ParseExit
    \/ With
    \/ WithAnnotation
    \/ \E v \in Datatypes : WithDatatype(v)
    \/ AddTag
    \/ Insert
    \/ Fail
    \/ Finish

SpecMeta == Init /\ [][NextMeta]_vars

\* A run of parse calls on a span of its own, as a parser makes them one
\* after another: the span is Annotated::new of the blob, and bytes are read
\* by the inner parsers only, which may call parse themselves.
FlatBlobs == UNION {[1..n -> ByteVals] : n \in 0..MaxFlat}

InitFlat ==
    /\ blob \in FlatBlobs
    /\ guard = TRUE
    /\ phase = "parsing"
    /\ span = AnnotatedNew(blob)
    /\ appendices = <<>>
    /\ stack = <<>>
    /\ bm = None
    /\ result = "none"
    /\ out = None
    /\ calls = 0
    /\ InputIdle

\* A primitive reader of nom, run as (part of) the inner parser of a parse.
ReadInside(n) ==
    /\ stack # <<>>
    /\ Read(n)

NextFlat ==
    \/ ParseEnter
    \/ \E n \in 1..MaxFlat : ReadInside(n)
    \/ ParseExit

SpecFlat == InitFlat /\ [][NextFlat]_vars

----------------------------------------------------------------------------
\* The input layer (decode.rs, binary.rs): a String or Bytes is turned into
\* candidate binaries. Text and bytes are sequences of byte values 0..255; a
\* String is a sequence that is valid UTF-8.

\* Binary, binary.rs lines 11-17. The hrp is empty for all but Bech32.
BinaryOf(kind, hrp, bytes) == [kind |-> kind, hrp |-> hrp, bytes |-> bytes]

\* The position of c in the alphabet, counted from 0; -1 when it is not in it.
IndexOf(alphabet, c) ==
    IF \E i \in 1..Len(alphabet) : alphabet[i] = c
    THEN (CHOOSE i \in 1..Len(alphabet) : alphabet[i] = c) - 1
    ELSE -1

\* Bit j (from 0, most significant first) of the stream made of the values
\* vals, each width bits wide.
StreamBit(vals, width, j) ==
    (vals[(j \div width) + 1] \div (2 ^ (width - 1 - (j % width)))) % 2

\* Byte k (from 1) of that stream.
StreamByte(vals, width, k) ==
    LET b(i) == StreamBit(vals, width, 8 * (k - 1) + i)
    IN 128 * b(0) + 64 * b(1) + 32 * b(2) + 16 * b(3)
       + 8 * b(4) + 4 * b(5) + 2 * b(6) + b(7)

\* The n leading bytes of the stream.
StreamBytes(vals, width, n) == [k \in 1..n |-> StreamByte(vals, width, k)]

\* hex: the value of a hexadecimal digit, -1 for any other character.
HexVal(c) ==
    IF c \in 48..57 THEN c - 48
    ELSE IF c \in 97..102 THEN c - 87
    ELSE IF c \in 65..70 THEN c - 55
    ELSE -1

\* string_to_hex: hex::decode fails on an odd length and on a character that
\* is no hexadecimal digit.
string_to_hex(s) ==
    IF Len(s) % 2 = 0 /\ \A i \in 1..Len(s) : HexVal(s[i]) >= 0
    THEN Some(BinaryOf("Hex", <<>>,
                       [k \in 1..(Len(s) \div 2) |->
                            16 * HexVal(s[2 * k - 1]) + HexVal(s[2 * k])]))
    ELSE None

\* The value of a character in the standard Base64 alphabet, -1 outside it.
Base64Val(c) ==
    IF c \in 65..90 THEN c - 65
    ELSE IF c \in 97..122 THEN c - 71
    ELSE IF c \in 48..57 THEN c + 4
    ELSE IF c = 43 THEN 62
    ELSE IF c = 47 THEN 63
    ELSE -1

\* string_to_base64: the STANDARD engine wants whole quads, canonical '='
\* padding (61) in the last quad only and no set bits after the last byte.
string_to_base64(s) ==
    LET n == Len(s)
        pad == IF n >= 2 /\ s[n] = 61 /\ s[n - 1] = 61 THEN 2
               ELSE IF n >= 1 /\ s[n] = 61 THEN 1
               ELSE 0
        vals == [i \in 1..(n - pad) |-> Base64Val(s[i])]
        count == (6 * (n - pad)) \div 8
    IN IF /\ n % 4 = 0
          /\ \A i \in 1..(n - pad) : vals[i] >= 0
          /\ \A j \in (8 * count)..(6 * (n - pad) - 1) : StreamBit(vals, 6, j) = 0
       THEN Some(BinaryOf("Base64", <<>>, StreamBytes(vals, 6, count)))
       ELSE None

\* The Base58 alphabet: 1-9, A-Z without I and O, a-z without l.
Base58Chars ==
    <<49, 50, 51, 52, 53, 54, 55, 56, 57,
      65, 66, 67, 68, 69, 70, 71, 72, 74, 75, 76, 77, 78,
      80, 81, 82, 83, 84, 85, 86, 87, 88, 89, 90,
      97, 98, 99, 100, 101, 102, 103, 104, 105, 106, 107,
      109, 110, 111, 112, 113, 114, 115, 116, 117, 118, 119, 120, 121, 122>>

\* The big-endian bytes of a number, none for 0.
RECURSIVE BytesOf(_)
BytesOf(n) == IF n = 0 THEN <<>> ELSE Append(BytesOf(n \div 256), n % 256)

\* The big-endian bytes of b * m + c, b being the big-endian bytes of a number.
RECURSIVE MulAdd(_, _, _)
MulAdd(b, m, c) ==
    IF b = <<>> THEN BytesOf(c)
    ELSE LET v == b[Len(b)] * m + c
         IN Append(MulAdd(SubSeq(b, 1, Len(b) - 1), m, v \div 256), v % 256)

\* The big-endian bytes of the number the Base58 digits stand for.
RECURSIVE Base58Number(_, _)
Base58Number(s, acc) ==
    IF s = <<>> THEN acc
    ELSE Base58Number(Tail(s), MulAdd(acc, 58, IndexOf(Base58Chars, Head(s))))

\* The leading characters of s that are c.
RECURSIVE LeadingCount(_, _)
LeadingCount(s, c) ==
    IF s # <<>> /\ Head(s) = c THEN 1 + LeadingCount(Tail(s), c) ELSE 0

\* base58::decode: every leading '1' is a zero byte, the rest is a number.
Base58Decode(s) ==
    [k \in 1..LeadingCount(s, 49) |-> 0] \o Base58Number(s, <<>>)

\* string_to_base58: base58::decode_check fails on a character outside the
\* alphabet, on fewer than 4 decoded bytes and on a checksum mismatch; it
\* returns the bytes before the checksum. checked tells whether the last four
\* bytes are the double SHA-256 of the others.
string_to_base58(s, checked) ==
    IF \A i \in 1..Len(s) : IndexOf(Base58Chars, s[i]) >= 0
    THEN LET decoded == Base58Decode(s)
         IN IF Len(decoded) >= 4 /\ checked
            THEN Some(BinaryOf("Base58Check", <<>>,
                               SubSeq(decoded, 1, Len(decoded) - 4)))
            ELSE None
    ELSE None

\* The Bech32 character set, in the order of the values 0..31.
Bech32Chars ==
    <<113, 112, 122, 114, 121, 57, 120, 56, 103, 102, 50, 116, 118, 100, 119, 48,
      115, 51, 106, 110, 53, 52, 107, 104, 99, 101, 54, 109, 117, 97, 55, 108>>

IsUpper(c) == c \in 65..90
IsLower(c) == c \in 97..122
ToLower(c) == IF IsUpper(c) THEN c + 32 ELSE c

\* string_to_bech32: CheckedHrpstring::new::<NoChecksum>. The last '1' (49)
\* separates a non-empty human-readable part of printable characters from
\* the data characters; the cases must not be mixed; no checksum is looked
\* at. hrp().to_string() is lower case, byte_iter() gives the whole bytes of
\* the 5-bit values.
string_to_bech32(s) ==
    LET n == Len(s)
        seps == {i \in 1..n : s[i] = 49}
        sep == CHOOSE i \in seps : \A k \in seps : k <= i
        fes == [i \in 1..(n - sep) |-> IndexOf(Bech32Chars, ToLower(s[sep + i]))]
    IN IF /\ seps # {}
          /\ sep > 1
          /\ sep - 1 <= 83
          /\ \A i \in 1..(sep - 1) : s[i] \in 33..126
          /\ ~ ((\E i \in 1..n : IsUpper(s[i])) /\ (\E i \in 1..n : IsLower(s[i])))
          /\ \A i \in 1..(n - sep) : fes[i] >= 0
       THEN Some(BinaryOf("Bech32",
                          [i \in 1..(sep - 1) |-> ToLower(s[i])],
                          StreamBytes(fes, 5, (5 * (n - sep)) \div 8)))
       ELSE None

\* UTF-8: a continuation byte.
IsCont(c) == c \in 128..191

\* UTF-8: the continuation bytes a first byte asks for, -1 for a byte that
\* starts no character.
Utf8Need(c) ==
    IF c <= 127 THEN 0
    ELSE IF c \in 194..223 THEN 1
    ELSE IF c \in 224..239 THEN 2
    ELSE IF c \in 240..244 THEN 3
    ELSE -1

\* UTF-8: the range of the byte that follows the first byte c.
Utf8Second(c) ==
    IF c = 224 THEN 160..191
    ELSE IF c = 237 THEN 128..159
    ELSE IF c = 240 THEN 144..191
    ELSE IF c = 244 THEN 128..143
    ELSE 128..191

\* Whether bytes are well-formed UTF-8 (what String::from_utf8 accepts): every
\* byte that is no continuation starts a character and is followed by just
\* the continuation bytes it asks for.
IsUtf8(b) ==
    /\ b = <<>> \/ ~ IsCont(b[1])
    /\ \A i \in 1..Len(b) :
          IsCont(b[i]) \/
          LET need == Utf8Need(b[i])
          IN /\ need >= 0
             /\ i + need <= Len(b)
             /\ \A k \in 1..need : IsCont(b[i + k])
             /\ need >= 1 => b[i + 1] \in Utf8Second(b[i])
             /\ i + need < Len(b) => ~ IsCont(b[i + need + 1])

\* binary_to_string: String::from_utf8(bytes).ok()
binary_to_string(b) == IF IsUtf8(b) THEN Some(b) ELSE None

\* A try_decode_string that tries Base64 before the other conversions.
try_decode_string_base64_first(s, checked) ==
    <<string_to_base64(s), string_to_hex(s), string_to_bech32(s),
      string_to_base58(s, checked)>>

\* try_decode_string: the four conversions, in this order.
try_decode_string(s, checked) ==
    <<string_to_hex(s), string_to_bech32(s), string_to_base58(s, checked),
      string_to_base64(s)>>

\* Iterator::flatten over a Vec<Option<T>>: the values of the Some elements.
RECURSIVE Flatten(_)
Flatten(options) ==
    IF options = <<>> THEN <<>> ELSE Head(options) \o Flatten(Tail(options))

\* input_to_binaries
input_to_binaries(i, checked) ==
    IF i.kind = "String"
    THEN Flatten(try_decode_string(i.data, checked))
    ELSE LET st == binary_to_string(i.data)
             s == IF st = None THEN <<>> ELSE try_decode_string(st[1], checked)
         IN Flatten(Append(s, Some(BinaryOf("Raw", <<>>, i.data))))

----------------------------------------------------------------------------
\* The parsers of the registered decoders, as far as the inputs of the model
\* take them. A parser is given a span and the appendix list of the run and
\* returns Ok with the span and the list it leaves, Err, or it panics.

ParsedOk(s, app) == [parsed |-> "Ok", span |-> s, app |-> app]
ParsedErr == [parsed |-> "Err", span |-> AnnotatedNew(<<>>), app |-> <<>>]
ParsedPanic == [parsed |-> "Panic", span |-> AnnotatedNew(<<>>), app |-> <<>>]

\* ann(label, value): the values of annotations are not followed.
AnnOf(label) == [label |-> Str(label), tags |-> <<>>, value |-> "Nil"]

\* A reader of nom that takes count bytes; length_count and success slice
\* nothing when there is nothing to read.
TakeBytes(s, count) == IF count = 0 THEN s ELSE SliceFrom(s, count)

\* parse(with("datatype", datatype, reader of count bytes), ann(label, _)) on
\* a span that holds count bytes at least.
ParseBytes(s, count, datatype, label) ==
    ParseOk(ParseSaved(s),
            SpanWith(TakeBytes(ParseEntry(s), count), "datatype", Str(datatype)),
            AnnOf(label))

\* A length no input of the model reaches: what stands for the values of
\* four and eight byte lengths with a byte set above the third.
Huge == 256 * 256 * 256

\* The number in little-endian bytes, Huge when it is that or more.
LeValue(b) ==
    IF \E i \in 4..Len(b) : b[i] # 0 THEN Huge
    ELSE (IF Len(b) >= 1 THEN b[1] ELSE 0)
         + (IF Len(b) >= 2 THEN 256 * b[2] ELSE 0)
         + (IF Len(b) >= 3 THEN 65536 * b[3] ELSE 0)

\* varint_impl: the bytes a varint takes, given its first byte.
VarintSize(first) ==
    IF first = 253 THEN 3 ELSE IF first = 254 THEN 5 ELSE IF first = 255 THEN 9 ELSE 1

\* varint_impl: the value of the varint at the start of b.
VarintValue(b) ==
    IF b[1] < 253 THEN b[1] ELSE LeValue(SubSeq(b, 2, VarintSize(b[1])))

\* datatypes::script
script(input, app) ==
    LET b == input.next_fragment
    IN IF b = <<>> \/ Len(b) < VarintSize(b[1]) THEN ParsedErr
       ELSE LET s1 == ParseBytes(input, VarintSize(b[1]), "varint", "Length")
                len == VarintValue(b)
            IN IF input_len(s1) < len THEN ParsedErr
               ELSE LET s2 == ParseBytes(s1, len, "bytes", "Script Data")
                    IN ParsedOk(SpanWith(s2, "datatype", Str("script")),
                                IF len > 0 THEN insert(s2, app, Str("Script"))
                                ELSE app)

\* Script::is_witness_program: 4 to 42 bytes, a version opcode (OP_0 or
\* OP_1..OP_16) and one push of 2 to 40 bytes that is the rest.
is_witness_program(sc) ==
    /\ Len(sc) \in 4..42
    /\ sc[1] = 0 \/ sc[1] \in 81..96
    /\ sc[2] \in 2..40
    /\ Len(sc) - 2 = sc[2]

is_p2wpkh(sc) == Len(sc) = 22 /\ sc[1] = 0 /\ sc[2] = 20
is_p2wsh(sc) == Len(sc) = 34 /\ sc[1] = 0 /\ sc[2] = 32
is_p2tr(sc) == Len(sc) = 34 /\ sc[1] = 81 /\ sc[2] = 32
is_p2sh(sc) == Len(sc) = 23 /\ sc[1] = 169 /\ sc[2] = 20 /\ sc[23] = 135
is_p2pkh(sc) ==
    /\ Len(sc) = 25
    /\ sc[1] = 118 /\ sc[2] = 169 /\ sc[3] = 20 /\ sc[24] = 136 /\ sc[25] = 172
is_p2pk(sc) ==
    \/ Len(sc) = 67 /\ sc[1] = 65 /\ sc[67] = 172
    \/ Len(sc) = 35 /\ sc[1] = 33 /\ sc[35] = 172
is_op_return(sc) == sc # <<>> /\ sc[1] = 106

\* tx::output_script
output_script(input, app) ==
    LET b == input.next_fragment
    IN IF b = <<>> \/ Len(b) < VarintSize(b[1]) THEN ParsedErr
       ELSE LET s1 == ParseBytes(input, VarintSize(b[1]), "varint", "Length")
                len == VarintValue(b)
            IN IF input_len(s1) < len THEN ParsedErr
               ELSE LET s2 == ParseBytes(s1, len, "bytes", "Script Data")
                        sc == SubSeq(s1.next_fragment, 1, len)
                        a1 == IF is_witness_program(sc)
                              THEN insert(s2, app, Str("Witness Version"))
                              ELSE app
                        a2 == IF is_witness_program(sc)
                                 /\ (is_p2wpkh(sc) \/ is_p2wsh(sc) \/ is_p2tr(sc))
                              THEN insert(s2,
                                          insert(s2, a1, Str("Length of Witness Program")),
                                          Str("Witness Program"))
                              ELSE a1
                    IN ParsedOk(SpanWith(s2, "datatype", Str("script")), a2)

\* tx::tx_out, lines 46-62: the label of the tag.
script_type(sc) ==
    IF is_p2pk(sc) THEN "P2PK"
    ELSE IF is_p2sh(sc) THEN "P2SH"
    ELSE IF is_p2pkh(sc) THEN "P2PKH"
    ELSE IF is_p2wsh(sc) THEN "P2WSH"
    ELSE IF is_p2wpkh(sc) THEN "P2WPKH"
    ELSE IF is_p2tr(sc) THEN "P2TR"
    ELSE IF is_op_return(sc) THEN "OP_RETURN"
    ELSE "NSTD"

\* tx::tx_out
tx_out(input, app) ==
    IF input_len(input) < 8 THEN ParsedErr
    ELSE LET s1 == ParseBytes(input, 8, "sat", "Amount")
             bm1 == bookmark(s1)
             inner == output_script(ParseEntry(s1), app)
         IN IF inner.parsed # "Ok" THEN ParsedErr
            ELSE LET s2 == ParseOk(ParseSaved(s1), inner.span, AnnOf("Output Script"))
                     b == s1.next_fragment
                     sc == SubSeq(b, VarintSize(b[1]) + 1,
                                  VarintSize(b[1]) + VarintValue(b))
                 IN ParsedOk(add_tag(s2, script_type(sc)),
                             insert_at(inner.app, bm1, Str("Address")))

\* Target::from_compact of the four bytes of the bits field (little endian):
\* the target is mant * 2^shift, cut to 256 bits. A mantissa above 0x7FFFFF
\* is negative and gives the target 0.
CompactExpt(bits) == bits[4]
CompactWord(bits) == bits[1] + 256 * bits[2] + 65536 * bits[3]

TargetShift(bits) ==
    IF CompactExpt(bits) <= 3 THEN 0 ELSE (8 * (CompactExpt(bits) - 3)) % 256

TargetMant(bits) ==
    LET mant == IF CompactExpt(bits) <= 3
                THEN CompactWord(bits) \div (2 ^ (8 * (3 - CompactExpt(bits))))
                ELSE CompactWord(bits)
        room == 256 - TargetShift(bits)
    IN IF mant > 8388607 THEN 0
       ELSE IF room < 23 THEN mant % (2 ^ room)
       ELSE mant

\* mant * 2^shift <= 0xFFFF * 2^k, for a mantissa below 2^23.
TargetAtMost(mant, shift, k) ==
    IF shift >= k
    THEN IF shift - k >= 16 THEN mant = 0 ELSE mant * (2 ^ (shift - k)) <= 65535
    ELSE IF k - shift >= 8 THEN TRUE ELSE mant <= 65535 * (2 ^ (k - shift))

\* Target::difficulty(Network::Bitcoin) = 0xFFFF * 2^208 / target, saturated
\* to u128, told by its class: the division asserts a target that is not 0;
\* "none" is a difficulty of 0; "huge" is one of 2^127 or more, which
\* i128::try_from refuses.
DifficultyClass(bits) ==
    LET mant == TargetMant(bits)
        shift == TargetShift(bits)
    IN IF mant = 0 THEN "zero"
       ELSE IF ~ TargetAtMost(mant, shift, 208) THEN "none"
       ELSE IF TargetAtMost(mant, shift, 81) THEN "huge"
       ELSE "some"

\* A block_header that inserts its "Block hash" where it stands at the end
\* rather than at the bookmark.
BlockHeaderAppendicesAtEnd(s, app, bm1, bits) ==
    LET a1 == insert(s, app, Str("Block hash"))
        a2 == IF DifficultyClass(bits) = "some"
              THEN insert(s, a1, Str("Difficulty"))
              ELSE a1
    IN insert(s, insert(s, a2, Str("Target")), Str("Work"))

\* block::block_header, lines 62-105: what follows the six fields.
BlockHeaderAppendices(s, app, bm1, bits) ==
    LET a1 == insert_at(app, bm1, Str("Block hash"))
        a2 == IF DifficultyClass(bits) = "some"
              THEN insert(s, a1, Str("Difficulty"))
              ELSE a1
    IN insert(s, insert(s, a2, Str("Target")), Str("Work"))

\* block::block_header. The difficulty is computed twice: the condition of
\* line 76 panics on a target of 0, the unwrap of line 80 on a difficulty
\* that does not fit i128.
block_header(input, app) ==
    IF input_len(input) < 80 THEN ParsedErr
    ELSE LET s1 == ParseBytes(input, 4, "bytes", "Version")
             bm1 == bookmark(s1)
             s2 == ParseBytes(s1, 32, "sha256", "Previous block hash")
             s3 == ParseBytes(s2, 32, "sha256", "Merkle root")
             s4 == ParseBytes(s3, 4, "timestamp", "Timestamp")
             s5 == ParseBytes(s4, 4, "bytes", "Bits")
             s6 == ParseBytes(s5, 4, "bytes", "Nonce")
             bits == SubSeq(s4.next_fragment, 1, 4)
         IN IF DifficultyClass(bits) \in {"zero", "huge"} THEN ParsedPanic
            ELSE ParsedOk(s6, BlockHeaderAppendices(s6, app, bm1, bits))

\* tx::tx: the fewest bytes a transaction that starts as b does can have. The
\* version takes 4 bytes; a 0 after it is the segwit marker, followed by the
\* flag; then the input count, 41 bytes at least for every input (outpoint,
\* script length, sequence), the output count and the lock time.
TxMinLen(b) ==
    IF Len(b) < 5 THEN 5
    ELSE LET pos == IF b[5] = 0 THEN 7 ELSE 5
         IN IF Len(b) < pos \/ Len(b) < pos + VarintSize(b[pos]) - 1
            THEN Len(b) + 1
            ELSE pos + VarintSize(b[pos]) - 1
                 + 41 * VarintValue(SubSeq(b, pos, Len(b))) + 1 + 4

\* tx::tx on bytes too few for any transaction that starts as they do.
tx(input, app) ==
    CASE input_len(input) < TxMinLen(input.next_fragment) -> ParsedErr

\* The gossip messages (channel_announcement 256, node_announcement 257,
\* channel_update 258, gossip_timestamp_filter 265) on bytes that do not start
\* with the type, or are too few for the fixed fields that follow it.
gossip(type, fixed, input, app) ==
    LET b == input.next_fragment
    IN CASE Len(b) < 2 \/ 256 * b[1] + b[2] # type -> ParsedErr
         [] Len(b) >= 2 /\ Len(b) < 2 + fixed -> ParsedErr

\* bip47::payment_code on bytes too few for its fixed fields (prefix, version,
\* features, public key, chain code, reserved), or not starting with 0x47.
payment_code(input, app) ==
    LET b == input.next_fragment
    IN CASE Len(b) < 1 + 1 + 1 + 33 + 32 + 13 -> ParsedErr
         [] b # <<>> /\ b[1] # 71 -> ParsedErr

\* ln::bigsize: the bytes a bigsize takes, given its first byte.
BigsizeSize(first) ==
    IF first = 253 THEN 3 ELSE IF first = 254 THEN 5 ELSE IF first = 255 THEN 9 ELSE 1

\* bolt12::bolt12 on bytes that do not hold the type and the length of one
\* record: the first tlv_record fails, many0 ends with no record and keeps
\* its input, and parse emits the leaf "TLV Stream" over no bytes.
bolt12(input, app) ==
    LET b == input.next_fragment
    IN CASE \/ b = <<>>
            \/ Len(b) < BigsizeSize(b[1]) + 1
            \/ Len(b) < BigsizeSize(b[1]) + BigsizeSize(b[BigsizeSize(b[1]) + 1])
            -> ParsedOk(ParseOk(ParseSaved(input), ParseEntry(input), AnnOf("TLV Stream")),
                        app)

\* The decoders registered with decoder!, lib.rs lines 80-167, in the order
\* of the file.
Decoders ==
    <<[symbol |-> "header", parser |-> "block_header"],
      [symbol |-> "tx", parser |-> "tx"],
      [symbol |-> "script", parser |-> "script"],
      [symbol |-> "chan_ann", parser |-> "channel_announcement"],
      [symbol |-> "chan_upd", parser |-> "channel_update"],
      [symbol |-> "node_ann", parser |-> "node_announcement"],
      [symbol |-> "ts_filter", parser |-> "gossip_timestamp_filter"],
      [symbol |-> "bolt12o", parser |-> "bolt12"],
      [symbol |-> "bolt12r", parser |-> "bolt12"],
      [symbol |-> "bolt12i", parser |-> "bolt12"],
      [symbol |-> "bip47", parser |-> "payment_code"],
      [symbol |-> "prevout", parser |-> "tx_out"]>>

\* A guard of the offer decoder that lets a binary of no bytes through.
DecoderMatchesEmptyOffer(d, b) ==
    CASE d.symbol = "header" -> Len(b.bytes) = 80
      [] d.symbol = "bolt12o" ->
            b.bytes = <<>> \/ (b.kind = "Bech32" /\ b.hrp = <<108, 110, 111>>)
      [] d.symbol = "bolt12r" -> b.kind = "Bech32" /\ b.hrp = <<108, 110, 114>>
      [] d.symbol = "bolt12i" -> b.kind = "Bech32" /\ b.hrp = <<108, 110, 105>>
      [] d.symbol = "bip47" ->
            b.kind = "Base58Check" /\ b.bytes # <<>> /\ b.bytes[1] = 71
      [] OTHER -> TRUE

\* The pattern and guard of a decoder: matches!(b, pattern if guard).
DecoderMatches(d, b) ==
    CASE d.symbol = "header" -> Len(b.bytes) = 80
      [] d.symbol = "bolt12o" -> b.kind = "Bech32" /\ b.hrp = <<108, 110, 111>>
      [] d.symbol = "bolt12r" -> b.kind = "Bech32" /\ b.hrp = <<108, 110, 114>>
      [] d.symbol = "bolt12i" -> b.kind = "Bech32" /\ b.hrp = <<108, 110, 105>>
      [] d.symbol = "bip47" ->
            b.kind = "Base58Check" /\ b.bytes # <<>> /\ b.bytes[1] = 71
      [] OTHER -> TRUE

\* The parser of a decoder called on a span.
RunParser(parser, s, app) ==
    CASE parser = "block_header" -> block_header(s, app)
      [] parser = "tx" -> tx(s, app)
      [] parser = "script" -> script(s, app)
      [] parser = "channel_announcement" -> gossip(256, 4 * 64 + 2, s, app)
      [] parser = "channel_update" -> gossip(258, 64 + 32 + 8 + 4, s, app)
      [] parser = "node_announcement" -> gossip(257, 64 + 2, s, app)
      [] parser = "gossip_timestamp_filter" -> gossip(265, 32 + 4 + 4, s, app)
      [] parser = "bolt12" -> bolt12(s, app)
      [] parser = "payment_code" -> payment_code(s, app)
      [] parser = "tx_out" -> tx_out(s, app)

\* A decode closure that hands its parser a span on which a leaf was counted
\* already.
DecoderRunOnUsedSpan(d, b) ==
    IF DecoderMatches(d, b)
    THEN RunParser(d.parser, [AnnotatedNew(b.bytes) EXCEPT !.next_index = 1], <<>>)
    ELSE ParsedErr

\* (d.decode)(b): the closure of decoder! called on a binary. The parser
\* runs on Annotated::new(&b) when the pattern matches.
DecoderRun(d, b) ==
    IF DecoderMatches(d, b)
    THEN RunParser(d.parser, AnnotatedNew(b.bytes), <<>>)
    ELSE ParsedErr

DecoderDecode(d, b) ==
    LET r == DecoderRun(d, b)
    IN decode(DecoderMatches(d, b), r.parsed, r.span, r.app)

----------------------------------------------------------------------------
\* decode_input: input_to_binaries, then decode_binaries binary by binary.

\* A Candidate, decode.rs lines 86-90.
Candidate(d, annotations_, b) ==
    [decoder |-> d.symbol, annotations |-> annotations_, data |-> b]

\* A decode_binaries that stops at the first decoder that succeeds.
CandidatesFirstOnly(reg, b) ==
    LET Hit(d) == DecoderDecode(d, b) # None
        hits == SelectSeq(reg, Hit)
    IN IF hits = <<>> THEN <<>>
       ELSE <<Candidate(hits[1], DecoderDecode(hits[1], b)[1], b)>>

\* decode_binaries, lines 82-92: the closure of flat_map on one binary, after
\* flatten: the candidates of the decoders that returned Some, in the order
\* of all_decoders().
CandidatesOf(reg, b) ==
    LET Hit(d) == DecoderDecode(d, b) # None
        hits == SelectSeq(reg, Hit)
    IN [k \in 1..Len(hits) |-> Candidate(hits[k], DecoderDecode(hits[k], b)[1], b)]

\* A decoder of the registry panics on the binary.
BinaryPanics(reg, b) ==
    \E j \in 1..Len(reg) : DecoderRun(reg[j], b).parsed = "Panic"

Reverse(s) == [i \in 1..Len(s) |-> s[Len(s) + 1 - i]]
Rep(c, n) == [i \in 1..n |-> c]

\* The characters of the short inputs: '0', '1', 'l', 'n', 'o'; a byte input
\* may also hold 0xFF, which no UTF-8 text does.
TextChars == {48, 49, 108, 110, 111}
ByteChars == TextChars \cup {255}

\* The lower-case hexadecimal text of bytes.
HexDigits == <<48, 49, 50, 51, 52, 53, 54, 55, 56, 57, 97, 98, 99, 100, 101, 102>>
HexText(bytes) ==
    [i \in 1..(2 * Len(bytes)) |->
        IF i % 2 = 1 THEN HexDigits[(bytes[(i + 1) \div 2] \div 16) + 1]
        ELSE HexDigits[(bytes[i \div 2] % 16) + 1]]

\* The bits fields of the sample headers: 0x1d00ffff (difficulty 1),
\* 0x227fffff (a target above the maximum), 0 and 0x03000001 (target 1).
SampleBits == {<<255, 255, 0, 29>>, <<255, 255, 127, 34>>, <<0, 0, 0, 0>>, <<1, 0, 0, 3>>}

\* An 80-byte block header with the given bits field.
SampleHeader(bits) ==
    <<2, 0, 0, 0>> \o <<17>> \o Rep(0, 31) \o Rep(0, 32) \o <<0, 0, 0, 0>>
    \o bits \o <<0, 0, 0, 0>>

\* Texts that more than one conversion or decoder accepts:
\* "080101010101010100" is a script and a transaction output in hexadecimal;
\* "FD0B00" + 10 x "1" + "05" + 10 x "1" is a script and a transaction output
\* in hexadecimal and another script in Base64;
\* "BQ1QGQQQ" is a script in Bech32 and another in Base64.
SampleTexts ==
    {HexText(<<8, 1, 1, 1, 1, 1, 1, 1, 0>>),
     <<70, 68, 48, 66, 48, 48>> \o Rep(49, 10) \o <<48, 53>> \o Rep(49, 10),
     <<66, 81, 49, 81, 71, 81, 81, 81>>}

\* The inputs decode_input is called with.
Inputs ==
    {[kind |-> "String", data |-> t] :
        t \in UNION {[1..n -> TextChars] : n \in 0..MaxText}
              \cup SampleTexts
              \cup {HexText(SampleHeader(bits)) : bits \in SampleBits}}
    \cup
    {[kind |-> "Binary", data |-> b] :
        b \in UNION {[1..n -> ByteChars] : n \in 0..MaxText}
              \cup {SampleHeader(bits) : bits \in SampleBits}}

\* Whether the text of the input can end in its own Base58 checksum.
ChecksumChoices(i) ==
    IF /\ IsUtf8(i.data)
       /\ \A k \in 1..Len(i.data) : IndexOf(Base58Chars, i.data[k]) >= 0
       /\ Len(Base58Decode(i.data)) >= 4
    THEN BOOLEAN
    ELSE {FALSE}

\* No decoder is running on its own: decode_input drives them.
ParserIdle ==
    /\ blob = <<>>
    /\ guard = FALSE
    /\ phase = "idle"
    /\ span = AnnotatedNew(<<>>)
    /\ appendices = <<>>
    /\ stack = <<>>
    /\ bm = None
    /\ result = "none"
    /\ out = None
    /\ calls = 0

InitInput ==
    /\ ParserIdle
    /\ user_input \in Inputs
    /\ checksum \in ChecksumChoices(user_input)
    /\ registry \in {Decoders, Reverse(Decoders)}
    /\ binaries = <<>>
    /\ next_binary = 1
    /\ candidates = <<>>
    /\ step = "input"

\* decode_input, line 76: input_to_binaries(input)
InputToBinaries ==
    /\ step = "input"
    /\ binaries' = input_to_binaries(user_input, checksum)
    /\ step' = "binaries"
    /\ UNCHANGED <<user_input, checksum, registry, next_binary, candidates>>
    /\ UNCHANGED pvars

\* decode_binaries, lines 81-92: the next binary is handed to every decoder;
\* a panic of a decoder ends the process.
DecodeBinary ==
    /\ step = "binaries"
    /\ next_binary <= Len(binaries)
    /\ IF BinaryPanics(registry, binaries[next_binary])
       THEN /\ step' = "panic"
            /\ UNCHANGED <<next_binary, candidates>>
       ELSE /\ candidates' = candidates \o CandidatesOf(registry, binaries[next_binary])
            /\ next_binary' = next_binary + 1
            /\ step' = step
    /\ UNCHANGED <<user_input, checksum, registry, binaries>>
    /\ UNCHANGED pvars

\* decode_binaries, line 93: collect() after the last binary.
Collect ==
    /\ step = "binaries"
    /\ next_binary > Len(binaries)
    /\ step' = "returned"
    /\ UNCHANGED <<user_input, checksum, registry, binaries, next_binary, candidates>>
    /\ UNCHANGED pvars

NextInput ==
    \/ InputToBinaries
    \/ DecodeBinary
    \/ Collect

SpecInput == InitInput /\ [][NextInput]_vars

----------------------------------------------------------------------------
\* What the claims speak about.

\* The decoder returned Some(tree).
Accepted == phase = "done" /\ out # None

\* The tree annotations() returned.
FinalTree == out[1]

\* All nodes of a tree, parents before children, in tree order.
RECURSIVE Nodes(_)
Nodes(tree) ==
    IF tree = <<>> THEN <<>>
    ELSE <<Head(tree)>>
         \o (IF Head(tree).kind = "group" THEN Nodes(Head(tree).children) ELSE <<>>)
         \o Nodes(Tail(tree))

SeqToSet(s) == {s[i] : i \in 1..Len(s)}

Groups(tree) == {n \in SeqToSet(Nodes(tree)) : n.kind = "group"}

\* The sibling lists of a tree: the roots and the children of every group.
SiblingLists(tree) == {tree} \cup {g.children : g \in Groups(tree)}

\* The real leaves below a node.
SubtreeRealLeaves(node) == real_leaves(<<node>>)

SetMin(S) == CHOOSE x \in S : \A y \in S : x <= y
SetMax(S) == CHOOSE x \in S : \A y \in S : x >= y

\* C1: in the tree annotations() returns, the indices of the real leaves read
\* in depth-first order are exactly 0, 1, ..., K-1.
C1_IndexDensity ==
    Accepted =>
        LET rl == real_leaves(FinalTree)
        IN \A i \in 1..Len(rl) : rl[i].location.index = i - 1

\* C1 witness: an accepted tree with three real leaves and a group, built by
\* a run that also inserted an annotation.
C1_Witness ==
    /\ Accepted
    /\ Len(real_leaves(FinalTree)) >= 3
    /\ Groups(FinalTree) # {}
    /\ appendices # <<>>

\* C2: for every group of the final tree, byte_from is the smallest from and
\* byte_to the largest to of the real leaves of its subtree.
C2_GroupByteHull ==
    Accepted =>
        \A g \in Groups(FinalTree) :
            LET rl == SeqToSet(SubtreeRealLeaves(g))
            IN /\ rl # {}
               /\ g.location.byte_from = SetMin({l.location.from : l \in rl})
               /\ g.location.byte_to = SetMax({l.location.to : l \in rl})

\* The number of siblings before position i that carry "list" = "enumerate".
MarkedBefore(siblings, i) ==
    Cardinality({j \in 1..(i - 1) :
        has_data(siblings[j].information, "list", Str("enumerate"))})

\* C3: every group of the final tree that carries "list" = "enumerate" (and
\* had no "annotation" override) is labelled with its zero-based position
\* among the siblings that carry the same marker.
C3_EnumerateAmongMarked ==
    Accepted =>
        \A siblings \in SiblingLists(FinalTree) :
            \A i \in 1..Len(siblings) :
                (/\ siblings[i].kind = "group"
                 /\ has_data(siblings[i].information, "list", Str("enumerate")))
                => siblings[i].information.label = to_string(MarkedBefore(siblings, i))

\* The virtual leaves of a tree, in tree order.
virtual_leaves(trees) ==
    LET IsVirtual(l) == l.kind = "virtual" IN SelectSeq(tree_leaves(trees), IsVirtual)

\* C4: every annotation pushed with insert or insert_at during a parse that
\* succeeds is a virtual leaf of the tree annotations() returns.
C4_EveryAppendixVisible ==
    Accepted =>
        \A i \in 1..Len(appendices) :
            \E v \in SeqToSet(virtual_leaves(FinalTree)) :
                v.information.label = appendices[i].information.label

\* The range the annotation of a virtual leaf was inserted at: every inserted
\* annotation has a label of its own, which the virtual leaf keeps.
InsertedRanges(v) ==
    {<<a.from, a.to>> : a \in {x \in SeqToSet(appendices) :
                                  x.information.label = v.information.label}}

LeafRange(l) == <<l.location.from, l.location.to>>

\* C5 as claimed: every virtual leaf directly follows, in its sibling list, a
\* real leaf whose (from, to) is the range its annotation was inserted at.
C5_ImmediatelyAfterRealLeaf ==
    Accepted =>
        \A siblings \in SiblingLists(FinalTree) :
            \A i \in 1..Len(siblings) :
                siblings[i].kind = "virtual" =>
                    /\ i > 1
                    /\ siblings[i - 1].kind = "real"
                    /\ InsertedRanges(siblings[i]) = {LeafRange(siblings[i - 1])}

\* C5 as amended: every virtual leaf follows, in its sibling list, a real leaf
\* whose (from, to) is the range its annotation was inserted at, and only
\* virtual leaves inserted at that same range stand between the two.
C5_AfterRealLeafOfItsRange ==
    Accepted =>
        \A siblings \in SiblingLists(FinalTree) :
            \A i \in 1..Len(siblings) :
                siblings[i].kind = "virtual" =>
                    \E j \in 1..(i - 1) :
                        /\ siblings[j].kind = "real"
                        /\ InsertedRanges(siblings[i]) = {LeafRange(siblings[j])}
                        /\ \A k \in (j + 1)..(i - 1) :
                              /\ siblings[k].kind = "virtual"
                              /\ InsertedRanges(siblings[k]) = {LeafRange(siblings[j])}

\* C5 witness: two annotations inserted at one range follow the same real
\* leaf inside a group.
C5_Witness ==
    /\ Accepted
    /\ \E g \in Groups(FinalTree) :
          \E i \in 1..Len(g.children) :
              /\ i + 2 <= Len(g.children)
              /\ g.children[i].kind = "real"
              /\ g.children[i + 1].kind = "virtual"
              /\ g.children[i + 2].kind = "virtual"

\* C6: decode returns Some(tree) exactly when the guard matches, the parser
\* returned Ok and the span it returned has no bytes left, the tree being
\* annotations() of that span; when the guard does not match the parser is
\* never run.
C6_DecodeSomeIff ==
    phase = "done" =>
        /\ (out # None) <=> (guard /\ result = "Ok" /\ input_len(span) = 0)
        /\ out # None => out = Some(annotations(span, appendices))
        /\ ~guard => (result = "none" /\ calls = 0 /\ span = AnnotatedNew(blob))

\* C6 witness: a parser that succeeded with a byte left over, after it had
\* produced a node, and the decoder returned None.
C6_Witness ==
    /\ phase = "done"
    /\ guard
    /\ result = "Ok"
    /\ input_len(span) > 0
    /\ span.tree # <<>>
    /\ out = None

\* The paths that leave a sibling list at its end: the path of the list's
\* parent (empty for the roots) extended by the length of the list.
PathsPastEnd(tree) ==
    {<<to_string(Len(tree))>>}
        \cup {g.path \o <<to_string(Len(g.children))>> : g \in Groups(tree)}

\* The path of the parent of a sibling list of the tree (empty for the roots).
ParentPaths(tree, siblings) ==
    (IF siblings = tree THEN {<<>>} ELSE {})
        \cup {g.path : g \in {h \in Groups(tree) : h.children = siblings}}

\* C7: select(n.path) returns n for every node n of the final tree; each
\* component of a path is the decimal zero-based position of the node among
\* its parent's children, virtual leaves counted, and no two nodes share a
\* path; select returns None for the empty path, for a path with a component
\* past the end of a sibling list and for a path that goes on below a leaf.
C7_SelectByPath ==
    Accepted =>
        /\ \A n \in SeqToSet(Nodes(FinalTree)) : select(FinalTree, n.path) = Some(n)
        /\ \A siblings \in SiblingLists(FinalTree) :
              \A i \in 1..Len(siblings) :
                  \E p \in ParentPaths(FinalTree, siblings) :
                      siblings[i].path = p \o <<to_string(i - 1)>>
        /\ LET ns == Nodes(FinalTree)
           IN \A i, j \in 1..Len(ns) : i # j => ns[i].path # ns[j].path
        /\ select(FinalTree, <<>>) = None
        /\ \A p \in PathsPastEnd(FinalTree) : select(FinalTree, p) = None
        /\ \A n \in SeqToSet(Nodes(FinalTree)) :
              n.kind # "group" => select(FinalTree, n.path \o <<to_string(0)>>) = None

\* C7 witness: a tree with two roots, the second a group that holds a real
\* leaf followed by a virtual leaf.
C7_Witness ==
    /\ Accepted
    /\ Len(FinalTree) >= 2
    /\ \E g \in Groups(FinalTree) :
          /\ Len(g.path) = 1
          /\ g.path # <<to_string(0)>>
          /\ \E i \in 2..Len(g.children) : g.children[i].kind = "virtual"

\* C8: real leaves do not overlap and follow the order of their indices: of
\* two real leaves the one with the smaller index ends where the other
\* starts, or before.
C8_LeavesMonotone ==
    Accepted =>
        \A l1, l2 \in SeqToSet(real_leaves(FinalTree)) :
            l1.location.index < l2.location.index => l1.location.to <= l2.location.from

\* C8 witness: a real leaf that spans a byte, followed by another real leaf.
C8_Witness ==
    /\ Accepted
    /\ \E l1, l2 \in SeqToSet(real_leaves(FinalTree)) :
          /\ l1.location.index < l2.location.index
          /\ l1.location.from < l1.location.to

\* C9: every byte offset of the input lies in some real leaf of the final
\* tree: from <= k < to.
C9_EveryByteInALeaf ==
    Accepted =>
        \A k \in 0..(Len(blob) - 1) :
            \E l \in SeqToSet(real_leaves(FinalTree)) :
                l.location.from <= k /\ k < l.location.to

\* C10: for every group of the final tree, index_from and index_to are the
\* indices of the first and the last real leaf of its subtree, and they are
\* what Node::index_range computes.
C10_GroupIndexRange ==
    Accepted =>
        \A g \in Groups(FinalTree) :
            LET rl == SubtreeRealLeaves(g)
            IN /\ rl # <<>>
               /\ g.location.index_from = rl[1].location.index
               /\ g.location.index_to = rl[Len(rl)].location.index
               /\ index_range(g) = <<g.location.index_from, g.location.index_to>>

\* C10 witness: a group that does not start at index 0, with a nested group,
\* two real leaves and a virtual leaf in its subtree.
C10_Witness ==
    /\ Accepted
    /\ \E g \in Groups(FinalTree) :
          /\ g.location.index_from > 0
          /\ g.location.index_to > g.location.index_from
          /\ Groups(g.children) # {}
          /\ virtual_leaves(g.children) # <<>>

----------------------------------------------------------------------------
\* What the claims about decode_input speak about.

\* The place of a kind of binary in the order Hex, Bech32, Base58Check,
\* Base64, Raw.
KindRank(kind) ==
    CASE kind = "Hex" -> 1
      [] kind = "Bech32" -> 2
      [] kind = "Base58Check" -> 3
      [] kind = "Base64" -> 4
      [] kind = "Raw" -> 5

\* The text the conversions are tried on: the String itself, or the bytes
\* when they are UTF-8.
InputText ==
    IF user_input.kind = "String" THEN Some(user_input.data)
    ELSE binary_to_string(user_input.data)

\* What the conversion to a kind makes of a text.
Conversion(kind, text) ==
    CASE kind = "Hex" -> string_to_hex(text)
      [] kind = "Bech32" -> string_to_bech32(text)
      [] kind = "Base58Check" -> string_to_base58(text, checksum)
      [] kind = "Base64" -> string_to_base64(text)

\* input_to_binaries has returned.
Converted == step \in {"binaries", "returned", "panic"}

\* C11: the binaries input_to_binaries returns are the successful conversions
\* in the order Hex, Bech32, Base58Check, Base64, each kind once at most and
\* no failed conversion among them; bytes add exactly one Raw of the bytes,
\* last, and alone when the bytes are not UTF-8; a String never gives a Raw.
C11_BinariesInFixedOrder ==
    Converted =>
        /\ \A i, j \in 1..Len(binaries) :
              i < j => KindRank(binaries[i].kind) < KindRank(binaries[j].kind)
        /\ \A kind \in {"Hex", "Bech32", "Base58Check", "Base64"} :
              LET made == IF InputText = None THEN None
                          ELSE Conversion(kind, InputText[1])
                  there == {i \in 1..Len(binaries) : binaries[i].kind = kind}
              IN IF made = None THEN there = {}
                 ELSE \E i \in there : binaries[i] = made[1]
        /\ user_input.kind = "Binary" =>
              /\ binaries # <<>>
              /\ binaries[Len(binaries)] = BinaryOf("Raw", <<>>, user_input.data)
              /\ InputText = None => Len(binaries) = 1
        /\ user_input.kind = "String" =>
              \A i \in 1..Len(binaries) : binaries[i].kind # "Raw"

\* Bytes that are a text two conversions accept and one refuses: two encoded
\* binaries and the Raw one.
C11_Witness ==
    /\ Converted
    /\ user_input.kind = "Binary"
    /\ user_input.data # <<>>
    /\ Len(binaries) = 3
    /\ binaries[1].kind = "Hex"
    /\ binaries[2].kind = "Base64"

\* decode_binaries has returned.
Returned == step = "returned"

\* The decoder of the registry with a symbol, and its place in the registry.
RegistryPlace(symbol) == CHOOSE j \in 1..Len(registry) : registry[j].symbol = symbol

\* The place of a binary among the binaries.
BinaryPlace(b) == CHOOSE i \in 1..Len(binaries) : binaries[i] = b

\* The pairs of a binary and a decoder that returns Some on it.
Hits ==
    {h \in (1..Len(binaries)) \X (1..Len(registry)) :
        DecoderDecode(registry[h[2]], binaries[h[1]]) # None}

\* C12: the candidates decode_input returns are one for every pair of a binary
\* and a decoder that accepts it, whatever other decoder accepted the binary
\* before; each carries the binary it was decoded from; they are ordered by
\* the place of the binary and then by the place of the decoder in the
\* registry, so that the candidates of the hexadecimal reading precede those
\* of the Base64 reading.
C12_EveryDecoderOnEveryBinary ==
    Returned =>
        /\ Len(candidates) = Cardinality(Hits)
        /\ \A h \in Hits :
              \E k \in 1..Len(candidates) :
                  candidates[k] = Candidate(registry[h[2]],
                                            DecoderDecode(registry[h[2]], binaries[h[1]])[1],
                                            binaries[h[1]])
        /\ \A k \in 1..Len(candidates) :
              /\ \E i \in 1..Len(binaries) : binaries[i] = candidates[k].data
              /\ Some(candidates[k].annotations)
                     = DecoderDecode(registry[RegistryPlace(candidates[k].decoder)],
                                     candidates[k].data)
        /\ \A k, l \in 1..Len(candidates) :
              k < l =>
                  \/ BinaryPlace(candidates[k].data) < BinaryPlace(candidates[l].data)
                  \/ /\ candidates[k].data = candidates[l].data
                     /\ RegistryPlace(candidates[k].decoder)
                            < RegistryPlace(candidates[l].decoder)
        /\ \A k, l \in 1..Len(candidates) :
              candidates[k].data.kind = "Hex" /\ candidates[l].data.kind = "Base64"
                  => k < l

\* A text whose hexadecimal reading two decoders accept and whose Base64
\* reading a decoder accepts.
C12_Witness ==
    /\ Returned
    /\ \E k, l, m \in 1..Len(candidates) :
          /\ k < l /\ l < m
          /\ candidates[k].data.kind = "Hex"
          /\ candidates[l].data = candidates[k].data
          /\ candidates[l].decoder # candidates[k].decoder
          /\ candidates[m].data.kind = "Base64"

\* C13: decode_input never aborts: whatever the input, no decoder panics on a
\* binary, and the call goes on to return its candidates.
C13_DecodeInputNeverPanics == step # "panic"

----------------------------------------------------------------------------
\* What the claims about labels and tags speak about.

\* The nodes of a tree.
NodeSet(tree) == SeqToSet(Nodes(tree))

\* The nodes the parser has built so far: those of the span and of the spans
\* the open combinators hold.
BuiltNodes ==
    NodeSet(span.tree) \cup UNION {NodeSet(stack[i].input.tree) : i \in 1..Len(stack)}

\* The tree before finalization with its appendices, of an accepted input.
InjectedTree == inject_paths(inject_appendices(span.tree, appendices), <<>>)

\* C14: in the finalized tree no node carries the key "annotation"; a node
\* that carried it before baking has its value as label, also a group that is
\* marked "list" = "enumerate"; the other nodes keep their label, or take
\* their number when they are enumerated groups.
C14_AnnotationReplacesLabel ==
    Accepted =>
        /\ \A n \in NodeSet(FinalTree) : "annotation" \notin DOMAIN n.information.data
        /\ \A n \in NodeSet(InjectedTree) :
              "annotation" \in DOMAIN n.information.data =>
                  \E f \in NodeSet(FinalTree) :
                      /\ f.path = n.path
                      /\ f.kind = n.kind
                      /\ f.information.label = n.information.data["annotation"]

\* An accepted input with a leaf named ex post and a group that is both named
\* ex post and enumerated.
C14_Witness ==
    /\ Accepted
    /\ \E n \in NodeSet(InjectedTree) :
          /\ n.kind = "group"
          /\ "annotation" \in DOMAIN n.information.data
          /\ has_data(n.information, "list", Str("enumerate"))
          /\ \E c \in NodeSet(n.children) :
                c.kind = "real" /\ "annotation" \in DOMAIN c.information.data

----------------------------------------------------------------------------
\* What the claims about parse speak about.

\* The real leaves among nodes.
RealAmong(nodes) == {n \in nodes : n.kind = "real"}

\* C15: every real leaf the parser has built, in the span it holds, in the
\* spans its open combinators hold and in the finalized tree, has
\* from <= to and to <= the length of the blob.
C15_LeafWithinBlob ==
    \A n \in RealAmong(BuiltNodes \cup (IF Accepted THEN NodeSet(FinalTree) ELSE {})) :
        /\ n.location.from <= n.location.to
        /\ n.location.to <= Len(blob)

\* An accepted blob with a leaf that ends at the end of the blob and covers
\* bytes, and a leaf that covers none.
C15_Witness ==
    /\ Accepted
    /\ blob # <<>>
    /\ \E n, e \in RealAmong(NodeSet(FinalTree)) :
          /\ n.location.from < n.location.to
          /\ n.location.to = Len(blob)
          /\ e.location.from = e.location.to

----------------------------------------------------------------------------
\* What the claim about block_header speaks about.

\* The trees the header decoder has returned.
HeaderTrees ==
    {candidates[k].annotations : k \in {i \in 1..Len(candidates) :
                                            candidates[i].decoder = "header"}}

\* The fields of a block header and their lengths.
HeaderFields ==
    <<Str("Version"), Str("Previous block hash"), Str("Merkle root"),
      Str("Timestamp"), Str("Bits"), Str("Nonce")>>
HeaderLengths == <<4, 32, 32, 4, 4, 4>>

\* The places of the nodes of a flat tree that carry a label.
PlacesOf(t, label) == {i \in 1..Len(t) : t[i].information.label = label}

\* C16: the tree block_header gives for an 80-byte blob is flat; its real
\* leaves are Version, Previous block hash, Merkle root, Timestamp, Bits and
\* Nonce, in this order, with the indices 0..5 and the lengths 4, 32, 32, 4,
\* 4, 4; the virtual leaf "Block hash" is the node right after Version; the
\* virtual leaves "Target" and "Work" come after Nonce, "Target" first.
C16_BlockHeaderTree ==
    \A t \in HeaderTrees :
        LET IsReal(n) == n.kind = "real"
            reals == SelectSeq(t, IsReal)
            nonce == CHOOSE i \in 1..Len(t) : t[i].information.label = Str("Nonce")
        IN /\ \A i \in 1..Len(t) : t[i].kind \in {"real", "virtual"}
           /\ Len(reals) = 6
           /\ \A i \in 1..6 :
                 /\ reals[i].information.label = HeaderFields[i]
                 /\ reals[i].location.index = i - 1
                 /\ reals[i].location.to - reals[i].location.from = HeaderLengths[i]
           /\ t[1] = reals[1]
           /\ t[2].kind = "virtual" /\ t[2].information.label = Str("Block hash")
           /\ PlacesOf(t, Str("Block hash")) = {2}
           /\ \E i, j \in (nonce + 1)..Len(t) :
                 /\ i < j
                 /\ PlacesOf(t, Str("Target")) = {i}
                 /\ PlacesOf(t, Str("Work")) = {j}
                 /\ t[i].kind = "virtual" /\ t[j].kind = "virtual"

\* decode_input has returned the tree of a block header that has a
\* difficulty.
C16_Witness ==
    /\ Returned
    /\ \E t \in HeaderTrees : PlacesOf(t, Str("Difficulty")) # {}

----------------------------------------------------------------------------
\* What the claim about the input of no bytes speaks about.

EmptyBinaryInput == user_input = [kind |-> "Binary", data |-> <<>>]

\* The parsers of the registered decoders.
Parsers == {Decoders[k].parser : k \in 1..Len(Decoders)}

\* C17: decode_input of Input::Binary of zero bytes returns the empty
\* sequence. The binaries of the input are an empty Hex, an empty Base64
\* and Raw; on each of them every registered decoder either does not match
\* or its parser fails; bolt12 is the one parser that succeeds on zero
\* bytes, and its decoders match Bech32 binaries only.
C17_EmptyBinaryInputNoCandidates ==
    EmptyBinaryInput =>
        /\ candidates = <<>>
        /\ step # "panic"
        /\ step # "input" =>
              /\ binaries = <<BinaryOf("Hex", <<>>, <<>>),
                              BinaryOf("Base64", <<>>, <<>>),
                              BinaryOf("Raw", <<>>, <<>>)>>
              /\ \A k \in 1..Len(binaries), j \in 1..Len(registry) :
                    \/ ~DecoderMatches(registry[j], binaries[k])
                    \/ DecoderRun(registry[j], binaries[k]).parsed = "Err"
              /\ \A p \in Parsers :
                    RunParser(p, AnnotatedNew(<<>>), <<>>).parsed = "Ok" <=> p = "bolt12"
              /\ \A k \in 1..Len(binaries), j \in 1..Len(registry) :
                    registry[j].parser = "bolt12" =>
                        ~DecoderMatches(registry[j], binaries[k])

\* decode_input of zero bytes has returned, all three binaries tried.
C17_Witness ==
    /\ EmptyBinaryInput
    /\ Returned
    /\ Len(binaries) = 3
    /\ next_binary = 4

----------------------------------------------------------------------------
\* What the claim about the node parse emits speaks about.

\* The groups the parser has built so far.
BuiltGroups == {n \in BuiltNodes : n.kind = "group"}

\* Every group built so far has children and a real leaf below it, its
\* index_from is not above its index_to, and no parse has underflowed.
GroupsSound ==
    /\ phase # "panic"
    /\ \A g \in BuiltGroups :
          /\ g.children # <<>>
          /\ SubtreeRealLeaves(g) # <<>>
          /\ 0 <= g.location.index_from
          /\ g.location.index_from <= g.location.index_to

\* C18: when the inner parser of parse returns, parse appends one node: a
\* real leaf exactly when the inner parser produced no nodes, otherwise a
\* group whose children are the nodes the inner parser produced, in their
\* order. So every group has a real leaf below it, index_from <= index_to
\* holds for every group, and next_index - 1 never underflows.
C18_ParseEmitsLeafOrGroup ==
    [][/\ ParseExit =>
             /\ phase' # "panic"
             /\ Len(span'.tree) = Len(Top.input.tree) + 1
             /\ SubSeq(span'.tree, 1, Len(Top.input.tree)) = Top.input.tree
             /\ span'.tree[Len(span'.tree)].kind = "real" <=> span.tree = <<>>
             /\ span.tree # <<>> =>
                   /\ span'.tree[Len(span'.tree)].kind = "group"
                   /\ span'.tree[Len(span'.tree)].children = span.tree
       /\ GroupsSound']_vars

\* parse has emitted both: a real leaf, and after it a group around a group.
C18_Witness ==
    /\ phase = "parsing"
    /\ Len(span.tree) = 2
    /\ span.tree[1].kind = "real"
    /\ span.tree[2].kind = "group"
    /\ Groups(span.tree[2].children) # {}

----------------------------------------------------------------------------
\* What the claim about the tags of a node speaks about.

\* C19: the node parse produces, a real leaf or a group, carries the tags
\* its annotation resolves to for the output of the inner parser, and the
\* pending tags the inner parser put on its span with add_tag.
C19_NodeCarriesBothTags ==
    [][(ParseExit /\ phase' # "panic") =>
          \A tag \in SeqToSet(ResolveTags(NodeAnn.tags)) \cup SeqToSet(span.tags) :
              tag \in SeqToSet(span'.tree[Len(span'.tree)].information.tags)]_vars

----------------------------------------------------------------------------
\* What the claim about a run of parse calls speaks about.

\* The inner parser of a parse of the run returns having produced no nodes,
\* and every parse before it emitted a real leaf.
FlatSoFar ==
    /\ Len(stack) = 1
    /\ span.tree = <<>>
    /\ \A k \in 1..Len(Top.input.tree) : Top.input.tree[k].kind = "real"

\* Where the leaf of the next parse of the run starts: where the leaf before
\* it ends, 0 for the first.
PreviousTo ==
    IF Top.input.tree = <<>> THEN 0
    ELSE Top.input.tree[Len(Top.input.tree)].location.to

\* The bytes the inner parser consumed: those left when parse was called,
\* after the leaves before, less those left now.
Consumed == (Len(blob) - PreviousTo) - input_len(span)

\* C20: in a run of parse calls whose inner parsers only read bytes, or
\* nothing, the i-th call (from 0) emits a real leaf with index i, from the
\* to of the leaf before (0 for the first) and to = from + the bytes
\* consumed; the span it returns has next_index = i + 1, next_offset = to,
\* last_range = Some((from, to)), and the appendix list is untouched. A parse
\* that emits a group leaves next_index as the inner parser returned it.
C20_FlatRunOfParse ==
    [][(ParseExit /\ phase' # "panic") =>
          /\ FlatSoFar =>
                /\ span'.tree[Len(span'.tree)] =
                       [ParseNode(Top.input, span, NodeAnn) EXCEPT
                           !.location = [from |-> PreviousTo,
                                         to |-> PreviousTo + Consumed,
                                         index |-> Len(Top.input.tree)]]
                /\ span'.tree[Len(span'.tree)].kind = "real"
                /\ span'.next_index = Len(Top.input.tree) + 1
                /\ span'.next_offset = PreviousTo + Consumed
                /\ span'.next_fragment =
                       SubSeq(blob, PreviousTo + Consumed + 1, Len(blob))
                /\ span'.last_range = Some(<<PreviousTo, PreviousTo + Consumed>>)
                /\ appendices' = appendices
                /\ appendices' = <<>>
          /\ span.tree # <<>> =>
                /\ span'.tree[Len(span'.tree)].kind = "group"
                /\ span'.next_index = span.next_index]_vars

\* A run of three parse calls has returned: a leaf over no bytes, a leaf over
\* bytes that starts where the first ends, then a group.
C20_Witness ==
    /\ stack = <<>>
    /\ Len(span.tree) = 3
    /\ span.tree[1].kind = "real" /\ span.tree[2].kind = "real"
    /\ span.tree[1].location.to = span.tree[1].location.from
    /\ span.tree[2].location.to > span.tree[2].location.from
    /\ span.tree[2].location.index = 1
    /\ span.tree[3].kind = "group"
    /\ span.next_index = 3

----------------------------------------------------------------------------
\* What the claim about the span parse returns speaks about.

\* The bytes a node covers.
NodeRange(n) ==
    IF n.kind = "group"
    THEN <<n.location.byte_from, n.location.byte_to>>
    ELSE <<n.location.from, n.location.to>>

\* C21: the span a successful parse returns has the tree its input held with
\* one new node appended (the nodes before are unchanged and in their
\* order), empty data and tags, last_range = (from, to) of the new node, and
\* the bytes left, the offset and the appendix list of the inner parser's
\* span.
C21_ReturnedSpan ==
    [][(ParseExit /\ phase' # "panic") =>
          /\ Len(span'.tree) = Len(Top.input.tree) + 1
          /\ \A k \in 1..Len(Top.input.tree) : span'.tree[k] = Top.input.tree[k]
          /\ span'.data = HashMapNew
          /\ span'.tags = <<>>
          /\ span'.last_range = Some(NodeRange(span'.tree[Len(span'.tree)]))
          /\ span'.next_fragment = span.next_fragment
          /\ span'.next_offset = span.next_offset
          /\ appendices' = appendices]_vars

\* parse has returned a span with a node that took data from the inner
\* parser's span, after another node, with an appendix pushed.
C21_Witness ==
    /\ phase = "parsing"
    /\ Len(span.tree) >= 2
    /\ span.tree[Len(span.tree)].information.data # HashMapNew
    /\ span.data = HashMapNew /\ span.tags = <<>>
    /\ span.last_range = Some(NodeRange(span.tree[Len(span.tree)]))
    /\ appendices # <<>>

----------------------------------------------------------------------------
\* What the claim about a failing inner parser speaks about.

\* The innermost backtracking invocation that is open.
InnermostTry == CHOOSE i \in TryFrames : \A k \in TryFrames : k <= i

\* C22: when a parser fails, every parse around it returns the failure and
\* appends no node: the failure ends at the innermost backtracking
\* combinator, which goes on with the span it was called with, the parse
\* calls below it still open; when none is open the decoder returns None.
\* So a decoder whose parser failed never publishes a tree.
C22_FailurePropagates ==
    [][/\ Fail =>
             /\ TryFrames = {} =>
                   /\ phase' = "done"
                   /\ result' = "Err"
                   /\ out' = None
             /\ TryFrames # {} =>
                   /\ span' = stack[InnermostTry].input
                   /\ stack' = SubSeq(stack, 1, InnermostTry - 1)
                   /\ phase' = "parsing"
             /\ appendices' = appendices
       /\ (result = "Err" => out = None)'
       /\ (out # None => result = "Ok")']_vars

\* The parser has failed inside a parse, nodes built before it, and the
\* decoder has returned None.
C22_Witness ==
    /\ phase = "done"
    /\ result = "Err"
    /\ out = None
    /\ guard
    /\ span.tree # <<>>
    /\ \E i \in 1..Len(stack) : stack[i].kind = "parse" /\ stack[i].input.tree # <<>>

----------------------------------------------------------------------------
\* What the claim about alt speaks about.

\* The positions of the alt calls whose alternate parser is running.
AltFrames == {i \in 1..Len(stack) : stack[i].kind = "alt"}

\* C23: alt(primary, alternate) fails when its alternate fails (as it does
\* when its primary fails, which runs as any parser); when the alternate
\* returns Ok, the primary runs on the span alt was called with, so offset,
\* next_index, tree, data and tags of the span alt returns are what the
\* primary alone makes of the input: nothing the alternate read or built
\* remains in the span.
C23_AltOnlyPrimaryAdvances ==
    [][/\ AltExit =>
             /\ span' = Top.input
             /\ stack' = Pop
             /\ phase' = "parsing"
       /\ (Fail /\ AltFrames # {}) =>
             \A i \in AltFrames :
                 (TryFrames = {} \/ i > InnermostTry) =>
                     /\ i \notin DOMAIN stack' \/ phase' = "done"
                     /\ TryFrames = {} => (phase' = "done" /\ out' = None)]_vars

\* The alternate parser of an alt is about to return a span that is ahead
\* of the input of alt in bytes, index, tree and data.
C23_Witness ==
    /\ phase = "parsing"
    /\ stack # <<>>
    /\ Top.kind = "alt"
    /\ span.next_offset > Top.input.next_offset
    /\ span.next_index > Top.input.next_index
    /\ Len(span.tree) > Len(Top.input.tree)
    /\ span.data # Top.input.data

----------------------------------------------------------------------------
\* What the claim about the shared appendix list speaks about.

IsPrefix(s, t) == Len(s) <= Len(t) /\ SubSeq(t, 1, Len(s)) = s

\* C24: the spans derived from one Annotated::new share one appendix list:
\* an insert through any of them, the clone an alternate or a backtracking
\* parser runs on included, appends to it; what was appended stays when the
\* span is dropped, and the list as a whole is what annotations() injects.
\* The other fields are the span's own: while a derived span changes, the
\* spans kept by the open combinators stay as they are, and a dropped span
\* gives way to the kept one as it was.
C24_AppendicesShared ==
    [][/\ IsPrefix(appendices, appendices')
       /\ (Insert /\ span.last_range # None) =>
             /\ Len(appendices') = Len(appendices) + 1
             /\ appendices'[Len(appendices')].from = span.last_range[1][1]
             /\ appendices'[Len(appendices')].to = span.last_range[1][2]
             /\ span' = span
       /\ \A i \in 1..Len(stack) : i <= Len(stack') => stack'[i] = stack[i]
       /\ Len(stack') < Len(stack) =>
             \/ Top.kind = "parse" /\ Len(stack') = Len(stack) - 1
             \/ Top.kind = "try" /\ Len(stack') = Len(stack) - 1 /\ span' = span
             \/ span' = stack[Len(stack') + 1].input
       /\ (phase' = "done" /\ out' # None) => out' = Some(annotations(span, appendices))]_vars

\* An appendix inserted through a span that has been dropped since: the list
\* holds it while the span in use has produced no node yet.
C24_Witness ==
    /\ phase = "parsing"
    /\ appendices # <<>>
    /\ span.last_range = None
    /\ span.tree = <<>>
    /\ stack = <<>>

----------------------------------------------------------------------------
\* What the claim about with speaks about.

\* The node the parse that returned last has appended.
LastNode(s) == s.tree[Len(s.tree)]

\* C25: with sets its key to its value on the span its inner parser
\* returned, whatever the key held before (timestamp over uint32), and
\* leaves the other keys; the node of the parse around it takes the data of
\* that span as it is; and parse returns a span with empty data, so that
\* the key does not reach a later sibling.
C25_WithSetsData ==
    [][/\ \A v \in Datatypes :
             WithDatatype(v) =>
                 /\ DOMAIN span'.data = DOMAIN span.data \cup {"datatype"}
                 /\ span'.data["datatype"] = Str(v)
                 /\ \A k \in DOMAIN span.data \ {"datatype"} :
                       span'.data[k] = span.data[k]
       /\ (ParseExit /\ phase' # "panic") =>
             /\ LastNode(span').information.data = span.data
             /\ span'.data = HashMapNew
       /\ ParseEnter => span'.data = span.data]_vars

\* parse has returned after a node that was given "datatype" = "timestamp":
\* the later sibling has no "datatype", the span no data.
C25_Witness ==
    /\ phase = "parsing"
    /\ stack = <<>>
    /\ Len(span.tree) = 2
    /\ "datatype" \in DOMAIN span.tree[1].information.data
    /\ span.tree[1].information.data["datatype"] = Str("timestamp")
    /\ "datatype" \notin DOMAIN span.tree[2].information.data
    /\ span.data = HashMapNew

----------------------------------------------------------------------------
\* What the claim about flags speaks about.

\* The nodes flags has appended to the tree of the span, one per declared
\* bit.
FlagNodes(before, after, anns) ==
    [k \in 1..Len(anns) |-> after.tree[Len(before.tree) + k]]

\* C26: flags(u8, bits) advances the span by the byte of the number only;
\* for each declared bit, in the order of the declaration, it appends one
\* real leaf over no bytes at the offset after the number, with consecutive
\* indices, whose value is true exactly when that bit of the number is set;
\* so parse around flags with a declared bit builds a group of one real leaf
\* per bit.
C26_FlagsLeaves ==
    [][\A anns \in FlagDecls :
          Flags(anns) =>
              LET numeric == span.next_fragment[1]
                  nodes == FlagNodes(span, span', anns)
              IN /\ span'.next_offset = span.next_offset + 1
                 /\ span'.next_fragment = Tail(span.next_fragment)
                 /\ span'.next_index = span.next_index + Len(anns)
                 /\ Len(span'.tree) = Len(span.tree) + Len(anns)
                 /\ SubSeq(span'.tree, 1, Len(span.tree)) = span.tree
                 /\ \A k \in 1..Len(anns) :
                       /\ nodes[k].kind = "real"
                       /\ nodes[k].location.from = span.next_offset + 1
                       /\ nodes[k].location.to = span.next_offset + 1
                       /\ nodes[k].location.index = span.next_index + k - 1
                       /\ nodes[k].information.value = "true"
                             <=> (numeric \div (2 ^ anns[k])) % 2 = 1
                       /\ nodes[k].information.value \in {"true", "false"}
                 /\ (stack # <<>> /\ Top.kind = "parse" /\ span.tree = <<>>) =>
                       /\ ParseNode(Top.input, span', NodeAnn).kind = "group"
                       /\ ParseNode(Top.input, span', NodeAnn).children = nodes]_vars

\* parse around flags with two declared bits has built a group of two leaves
\* over no bytes, one for a bit that is not set and one for a bit that is.
C26_Witness ==
    \E g \in BuiltGroups :
        /\ Len(g.children) = 2
        /\ g.location.byte_to = g.location.byte_from + 1
        /\ \A k \in 1..2 :
              /\ g.children[k].kind = "real"
              /\ g.children[k].location.from = g.location.byte_to
              /\ g.children[k].location.to = g.location.byte_to
        /\ g.children[1].information.value = "false"
        /\ g.children[2].information.value = "true"

----------------------------------------------------------------------------
\* What the claim about bookmark, insert_at and insert speaks about.

\* The appendix insert and insert_at push for a range.
AppendixAt(range, label) ==
    [from |-> range[1],
     to |-> range[2],
     place |-> "After",
     information |-> [label |-> label, data |-> HashMapNew,
                      tags |-> <<>>, value |-> "Nil"]]

\* C27: bookmark() captures last_range as it is at the call, and the
\* bookmark stays as it is while the parser goes on; insert_at pushes one
\* appendix with the captured range and place After, whatever was parsed
\* since; insert does what insert_at does with a bookmark taken on the same
\* span; with a range of None both leave the appendix list as it is.
C27_BookmarkInsert ==
    [][/\ Bookmark => bm' = Some(span.last_range)
       /\ ~Bookmark => bm' = bm
       /\ InsertAt =>
             appendices' = IF bm[1] = None THEN appendices
                           ELSE Append(appendices, AppendixAt(bm[1][1], InsertLabel))
       /\ Insert =>
             /\ appendices' = insert_at(appendices, bookmark(span), InsertLabel)
             /\ appendices' = IF span.last_range = None THEN appendices
                              ELSE Append(appendices,
                                          AppendixAt(span.last_range[1], InsertLabel))]_vars

\* insert_at has pushed an appendix for a bookmark that was taken before the
\* node parsed last.
C27_Witness ==
    /\ phase = "parsing"
    /\ bm # None /\ bm[1] # None
    /\ span.last_range # None
    /\ bm[1] # span.last_range
    /\ appendices # <<>>
    /\ appendices[Len(appendices)].from = bm[1][1][1]
    /\ appendices[Len(appendices)].to = bm[1][1][2]

----------------------------------------------------------------------------
\* What the claim about appendices of failed branches speaks about.

\* In the tree of an accepted input every appendix of the list stands, as a
\* virtual leaf, behind every real leaf of its range, virtual leaves only
\* between the two.
InjectedWhereMatched ==
    Accepted =>
        \A i \in 1..Len(appendices) :
            \A siblings \in SiblingLists(FinalTree) :
                \A j \in 1..Len(siblings) :
                    (/\ siblings[j].kind = "real"
                     /\ LeafRange(siblings[j]) = <<appendices[i].from, appendices[i].to>>)
                    => \E k \in (j + 1)..Len(siblings) :
                          /\ siblings[k].kind = "virtual"
                          /\ siblings[k].information.label = appendices[i].information.label
                          /\ \A m \in (j + 1)..k : siblings[m].kind = "virtual"

----------------------------------------------------------------------------
\* What the claim about the number of virtual leaves speaks about.

\* The pairs of an appendix of the list and a real leaf of the tree that
\* have the same (from, to).
MatchingPairs(app, rl) ==
    {p \in (1..Len(app)) \X (1..Len(rl)) :
        <<app[p[1]].from, app[p[1]].to>> = LeafRange(rl[p[2]])}

\* The labels of the run of virtual leaves behind position j of a sibling
\* list.
RECURSIVE VirtualRun(_, _)
VirtualRun(siblings, j) ==
    IF j + 1 <= Len(siblings) /\ siblings[j + 1].kind = "virtual"
    THEN <<siblings[j + 1].information.label>> \o VirtualRun(siblings, j + 1)
    ELSE <<>>

\* The labels of the appendices of a range, in the order they were pushed.
LabelsAt(app, range) ==
    LET At(a) == <<a.from, a.to>> = range
        at == SelectSeq(app, At)
    IN [k \in 1..Len(at) |-> at[k].information.label]

\* C29: the finalized tree has as many virtual leaves as there are pairs of
\* a pushed appendix and a real leaf with the same (from, to): an appendix
\* whose range is that of no real leaf gives none, one whose range k real
\* leaves share gives k, each in the sibling list of its leaf; the virtual
\* leaves behind a real leaf are those of the appendices of its range in
\* the order they were pushed.
C29_VirtualLeafCount ==
    Accepted =>
        /\ Len(virtual_leaves(FinalTree)) =
               Cardinality(MatchingPairs(appendices, real_leaves(FinalTree)))
        /\ \A siblings \in SiblingLists(FinalTree) :
              /\ siblings # <<>> => siblings[1].kind # "virtual"
              /\ \A j \in 1..Len(siblings) :
                    /\ siblings[j].kind = "real" =>
                          VirtualRun(siblings, j) =
                              LabelsAt(appendices, LeafRange(siblings[j]))
                    /\ siblings[j].kind = "group" => VirtualRun(siblings, j) = <<>>

\* An accepted tree with an appendix whose range two real leaves over no
\* bytes share, a copy behind each, and an appendix whose range is that of
\* no real leaf.
C29_Witness ==
    /\ Accepted
    /\ \E i, k \in 1..Len(appendices) :
          LET rl == real_leaves(FinalTree)
          IN /\ Cardinality({p \in MatchingPairs(appendices, rl) : p[1] = i}) = 2
             /\ appendices[i].from = appendices[i].to
             /\ {p \in MatchingPairs(appendices, rl) : p[1] = k} = {}
             /\ Len(virtual_leaves(FinalTree)) = 2

----------------------------------------------------------------------------
\* What the claim about the span a decoder starts from speaks about.

\* The decoder registered under a symbol.
DecoderOf(symbol) ==
    Decoders[CHOOSE k \in 1..Len(Decoders) : Decoders[k].symbol = symbol]

\* What the parser of a decoder makes of a binary on its own: on a span that
\* is new, with an appendix list that is new and empty.
OnItsOwn(symbol, b) ==
    RunParser(DecoderOf(symbol).parser,
              [next_index |-> 0,
               next_offset |-> 0,
               next_fragment |-> b.bytes,
               tree |-> <<>>,
               data |-> HashMapNew,
               tags |-> <<>>,
               last_range |-> None],
              <<>>)

====
